---- MODULE Spec2Model ----
(***************************************************************************)
(* Model of the audio analysis functions of src/app/FileInput.tsx          *)
(* (performFFT, analyzeWaveform, detectDownbeat, detectBPM, detectKey and  *)
(* calculateChroma), of the beat grid of src/app/Beatgrid.tsx and          *)
(* src/app/WaveformCanvas.tsx and of the upload handlers of                *)
(* src/app/FileInput.tsx and src/app/Analyzer.tsx.                         *)
(*                                                                         *)
(* Numbers.  The code computes in IEEE 754 doubles and stores samples,     *)
(* filter outputs and magnitudes in Float32Arrays.  The model does the     *)
(* same: a number of the code is a record [cls, neg, m, e] that holds a    *)
(* double bit for bit, every operation of the code (+, -, *, /, Math.sqrt, *)
(* Math.floor, Math.round, Math.min, Math.max, a Float32Array store) is    *)
(* the correctly rounded operation on such records, and Math.cos,          *)
(* Math.sin, Math.exp and Math.log2 are the engine's algorithms (fdlibm)   *)
(* carried out in that arithmetic.  Loop counters, indices and sizes that  *)
(* the code keeps integral are integers of the model.                      *)
(*                                                                         *)
(* Samples.  An input buffer holds integers; the integer v stands for the  *)
(* Float32 sample nearest to v / SampleDen.                                *)
(***************************************************************************)
EXTENDS Integers, Sequences, FiniteSets, TLC

VARIABLES
    pc,            \* position of the code that runs: "idle" | "framing" |
                   \* "forward" | "backward" | "ready" | "decoding" | "done"
    sampleRate,    \* audioBuffer.sampleRate
    channelData,   \* audioBuffer.getChannelData(0), a sequence of samples
    canvasWidth,   \* analyzeWaveform's canvasWidth argument
    segments,      \* analyzeWaveform's result
    spans,         \* history: [startSample, endSample) of each segment
    binI,          \* analyzeWaveform: the bin index i of the band loop
    lowBins,       \* history: the bins added to lowEnergy
    midBins,       \* history: the bins added to midEnergy
    highBins,      \* history: the bins added to highEnergy
    fftOut,        \* performFFT's result
    energy,        \* detectDownbeat: the energy array
    downbeatOut,   \* detectDownbeat's result
    envelope,      \* detectBPM: the envelope array (FileInput.tsx:52-67)
    peaks,         \* detectBPM: the accepted peak indices
    bpmHistogram,  \* detectBPM: the histogram, bin -> weight in half votes
    bpmOut,        \* detectBPM's result
    refreshLog,    \* history: the scan indices at which the peak scan set the
                   \* threshold anew, each with the threshold it set
    keyI,          \* detectKey: the framing loop's index i
    chromaFrames,  \* detectKey: chromaFrames
    energyFrames,  \* detectKey: energyFrames
    frameLog,      \* history: per frame, what the extractor did and the frame
    scanRan,       \* history: TRUE once the 24-candidate scan was executed
    keyOut,        \* detectKey's result
    duration,      \* beat grid: the duration prop
    bpm,           \* beat grid: the bpm prop
    downbeatTime,  \* beat grid: the downbeatTime prop
    currentTime,   \* beat grid: currentTime of the two loops
    beatIndex,     \* beat grid: beatIndex of the two loops
    beats,         \* beat grid: the beats array
    component,     \* upload: "FileInput" | "Analyzer", whose handler runs
    isLoading,     \* upload: React state isLoading
    loadingStep,   \* upload: React state loadingStep
    error,         \* upload: React state error ("null" for null)
    audioData,     \* upload: React state audioData (<<>> for null)
    stepLog        \* history: the outcome of each step of the last analysis

analysisVars == <<sampleRate, channelData, canvasWidth, segments, fftOut,
                  energy, downbeatOut, envelope, peaks, bpmHistogram, bpmOut,
                  keyI, chromaFrames, energyFrames, frameLog, scanRan, keyOut,
                  refreshLog, spans, binI, lowBins, midBins, highBins>>
bandVars == <<binI, lowBins, midBins, highBins>>
gridVars == <<duration, bpm, downbeatTime, currentTime, beatIndex, beats>>
uploadVars == <<component, isLoading, loadingStep, error, audioData, stepLog>>
vars == <<pc, analysisVars, gridVars, uploadVars>>

-----------------------------------------------------------------------------
(* Bounds of the model *)

\* a sample v stands for the Float32 nearest to v / SampleDen
SampleDen == 2
\* samples range over -MaxSample .. MaxSample
MaxSample == 2
\* longest repeated pattern a buffer is built from
MaxPatLen == 2

-----------------------------------------------------------------------------
(* Integer helpers *)

Min(a, b) == IF a < b THEN a ELSE b
Max(a, b) == IF a > b THEN a ELSE b
Abs(a) == IF a < 0 THEN -a ELSE a

-----------------------------------------------------------------------------
(* The functions of the program and the operations of its arithmetic call  *)
(* one another; they are the arms of one recursive operator, Apply, which  *)
(* is defined after them.  Apply(f, a) is function f applied to the        *)
(* arguments a; X(p) is Apply("X", <<p>>) and XBody(p) is the body of X.   *)
RECURSIVE Apply(_, _)
Round64(neg, w, e, sticky) == Apply("Round64", <<neg, w, e, sticky>>)
Canonical(neg, m, e) == Apply("Canonical", <<neg, m, e>>)
DivStep(r, b) == Apply("DivStep", <<r, b>>)
AddOrdered(hi, lo) == Apply("AddOrdered", <<hi, lo>>)
F64Add(x, y) == Apply("F64Add", <<x, y>>)
F64Mul(x, y) == Apply("F64Mul", <<x, y>>)
F64Sub(x, y) == Apply("F64Sub", <<x, y>>)
F64Div(x, y) == Apply("F64Div", <<x, y>>)
F64Sqrt(x) == Apply("F64Sqrt", <<x>>)
F64Fround(x) == Apply("F64Fround", <<x>>)
F64FromInt(n) == Apply("F64FromInt", <<n>>)
F64Less(x, y) == Apply("F64Less", <<x, y>>)
F64Greater(x, y) == Apply("F64Greater", <<x, y>>)
F64Equal(x, y) == Apply("F64Equal", <<x, y>>)
F64LessEq(x, y) == Apply("F64LessEq", <<x, y>>)
F64GreaterEq(x, y) == Apply("F64GreaterEq", <<x, y>>)
F64Min(x, y) == Apply("F64Min", <<x, y>>)
F64Max(x, y) == Apply("F64Max", <<x, y>>)
F64Floor(x) == Apply("F64Floor", <<x>>)
F64Round(x) == Apply("F64Round", <<x>>)
F64ToInt(x) == Apply("F64ToInt", <<x>>)
Dec(n, d) == Apply("Dec", <<n, d>>)
Truncate(x) == Apply("Truncate", <<x>>)
HighWord(x) == Apply("HighWord", <<x>>)
Horner(z, c) == Apply("Horner", <<z, c>>)
KernelSin(x, y, iy) == Apply("KernelSin", <<x, y, iy>>)
KernelCos(x, y) == Apply("KernelCos", <<x, y>>)
RemPio2(x) == Apply("RemPio2", <<x>>)
F64Cos(x) == Apply("F64Cos", <<x>>)
F64Sin(x) == Apply("F64Sin", <<x>>)
F64Exp(x) == Apply("F64Exp", <<x>>)
KLog1p(f) == Apply("KLog1p", <<f>>)
F64Log2(x) == Apply("F64Log2", <<x>>)
EnergyWindows(data, sr) == Apply("EnergyWindows", <<data, sr>>)
OnsetScan(e, sr) == Apply("OnsetScan", <<e, sr>>)
performFFT(signal) == Apply("performFFT", <<signal>>)
Dft(signal, k, terms) == Apply("Dft", <<signal, k, terms>>)
analyzeWaveform(data, sr, width) == Apply("analyzeWaveform", <<data, sr, width>>)
Brightness(data, startSample, endSample) == Apply("Brightness", <<data, startSample, endSample>>)
EnvelopeOf(data, sr) == Apply("EnvelopeOf", <<data, sr>>)
GlobalStats(env, i, acc) == Apply("GlobalStats", <<env, i, acc>>)
LocalThreshold(env, i, sr, globalThreshold) == Apply("LocalThreshold", <<env, i, sr, globalThreshold>>)
PeakScanResult(env, sr) == Apply("PeakScanResult", <<env, sr>>)
Histogram(intervals, sr) == Apply("Histogram", <<intervals, sr>>)
BPMFromPeaks(pk, hist) == Apply("BPMFromPeaks", <<pk, hist>>)
PushChroma(chromas, outcome, frame, sr) == Apply("PushChroma", <<chromas, outcome, frame, sr>>)
PushEnergy(energies, frame) == Apply("PushEnergy", <<energies, frame>>)
WeightedChroma(chromas, energies) == Apply("WeightedChroma", <<chromas, energies>>)
WeightedSums(chromas, energies) == Apply("WeightedSums", <<chromas, energies>>)
Correlation(chroma, keyOffset, profile) == Apply("Correlation", <<chroma, keyOffset, profile>>)
Hundredths(seq) == Apply("Hundredths", <<seq>>)
KeyResult(chromas, energies) == Apply("KeyResult", <<chromas, energies>>)
secondsPerBeat(b) == Apply("secondsPerBeat", <<b>>)
Tones(c, g, a) == Apply("Tones", <<c, g, a>>)
TonicChroma(p, withMinorThird) == Apply("TonicChroma", <<p, withMinorThird>>)
-----------------------------------------------------------------------------
(* Natural numbers in limbs of 14 bits, least significant limb first: a    *)
(* mantissa has 4 limbs, an intermediate result 8.                         *)

Pow2(i) == 2 ^ i
\* the product of two limbs, with a carry, stays below 2^31
LimbBits == 28 \div 2
LimbBase == Pow2(LimbBits)

\* limb j of w, 0 outside of w
W(w, j) == IF j >= 1 /\ j <= Len(w) THEN w[j] ELSE 0
Wide(m) == <<m[1], m[2], m[3], m[4], 0, 0, 0, 0>>
Low4(w) == <<w[1], w[2], w[3], w[4]>>
Zero4 == <<0, 0, 0, 0>>

\* the number of bits of a limb
BitLen14(x) ==
    IF x < 128
    THEN IF x < 8
         THEN (IF x < 2 THEN x ELSE IF x < 4 THEN 2 ELSE 3)
         ELSE IF x < 32 THEN (IF x < 16 THEN 4 ELSE 5)
         ELSE IF x < 64 THEN 6 ELSE 7
    ELSE IF x < 2048
         THEN IF x < 512 THEN (IF x < 256 THEN 8 ELSE 9)
              ELSE IF x < 1024 THEN 10 ELSE 11
         ELSE IF x < 8192 THEN (IF x < 4096 THEN 12 ELSE 13) ELSE 14
\* the number of bits of a number of 4 or of 8 limbs
\* the bits up to and with limb j, the top limb that is not 0
BitLenAt(w, j) == LimbBits * (j - 1) + BitLen14(w[j])
TopLimb4(m) == IF m[4] # 0 THEN 4 ELSE IF m[3] # 0 THEN 3
               ELSE IF m[2] # 0 THEN 2 ELSE 1
TopLimb8(w) == IF w[8] # 0 THEN 8 ELSE IF w[7] # 0 THEN 7
               ELSE IF w[6] # 0 THEN 6 ELSE IF w[5] # 0 THEN 5 ELSE TopLimb4(w)
BitLen4(m) == BitLenAt(m, TopLimb4(m))
BitLen8(w) == BitLenAt(w, TopLimb8(w))

\* floor(w / 2^s), which has to fit 4 limbs
ShrLimbs(w, ls, lo, up) ==
    <<(W(w, ls + 1) \div lo) + (W(w, ls + 2) % lo) * up,
      (W(w, ls + 2) \div lo) + (W(w, ls + 3) % lo) * up,
      (W(w, ls + 3) \div lo) + (W(w, ls + 4) % lo) * up,
      (W(w, ls + 4) \div lo) + (W(w, ls + 5) % lo) * up>>
ShrTo4(w, s) ==
    ShrLimbs(w, s \div LimbBits, Pow2(s % LimbBits),
             Pow2(LimbBits - (s % LimbBits)))
\* m * 2^s, which has to fit 8 limbs
ShlLimbs(m, ls, bs, cut) ==
    <<(W(m, 1 - ls) % cut) * bs + (W(m, 0 - ls) \div cut),
      (W(m, 2 - ls) % cut) * bs + (W(m, 1 - ls) \div cut),
      (W(m, 3 - ls) % cut) * bs + (W(m, 2 - ls) \div cut),
      (W(m, 4 - ls) % cut) * bs + (W(m, 3 - ls) \div cut),
      (W(m, 5 - ls) % cut) * bs + (W(m, 4 - ls) \div cut),
      (W(m, 6 - ls) % cut) * bs + (W(m, 5 - ls) \div cut),
      (W(m, 7 - ls) % cut) * bs + (W(m, 6 - ls) \div cut),
      (W(m, 8 - ls) % cut) * bs + (W(m, 7 - ls) \div cut)>>
ShlTo8(m, s) ==
    ShlLimbs(m, s \div LimbBits, Pow2(s % LimbBits),
             Pow2(LimbBits - (s % LimbBits)))
\* bit number k of w (bit 0 is the least significant)
BitOf(w, k) == (W(w, (k \div LimbBits) + 1) \div Pow2(k % LimbBits)) % 2
\* some bit of w below bit number k is set
LowNonZero(w, k) ==
    \/ W(w, (k \div LimbBits) + 1) % Pow2(k % LimbBits) # 0
    \/ \E j \in 1 .. Min(Len(w), k \div LimbBits) : w[j] # 0

\* m + 1
Inc4(m) ==
    IF m[1] < LimbBase - 1 THEN <<m[1] + 1, m[2], m[3], m[4]>>
    ELSE IF m[2] < LimbBase - 1 THEN <<0, m[2] + 1, m[3], m[4]>>
    ELSE IF m[3] < LimbBase - 1 THEN <<0, 0, m[3] + 1, m[4]>>
    ELSE <<0, 0, 0, m[4] + 1>>

\* 1, 0 or -1 as a > b, a = b or a < b
Cmp4(a, b) ==
    IF a[4] # b[4] THEN (IF a[4] > b[4] THEN 1 ELSE 0 - 1)
    ELSE IF a[3] # b[3] THEN (IF a[3] > b[3] THEN 1 ELSE 0 - 1)
    ELSE IF a[2] # b[2] THEN (IF a[2] > b[2] THEN 1 ELSE 0 - 1)
    ELSE IF a[1] # b[1] THEN (IF a[1] > b[1] THEN 1 ELSE 0 - 1)
    ELSE 0
Cmp8(a, b) ==
    IF a[8] # b[8] THEN (IF a[8] > b[8] THEN 1 ELSE 0 - 1)
    ELSE IF a[7] # b[7] THEN (IF a[7] > b[7] THEN 1 ELSE 0 - 1)
    ELSE IF a[6] # b[6] THEN (IF a[6] > b[6] THEN 1 ELSE 0 - 1)
    ELSE IF a[5] # b[5] THEN (IF a[5] > b[5] THEN 1 ELSE 0 - 1)
    ELSE Cmp4(a, b)

\* a + b and a - b (a >= b) on 8 limbs
Add8(a, b) ==
    LET s1 == a[1] + b[1]
        s2 == a[2] + b[2] + (s1 \div LimbBase)
        s3 == a[3] + b[3] + (s2 \div LimbBase)
        s4 == a[4] + b[4] + (s3 \div LimbBase)
        s5 == a[5] + b[5] + (s4 \div LimbBase)
        s6 == a[6] + b[6] + (s5 \div LimbBase)
        s7 == a[7] + b[7] + (s6 \div LimbBase)
        s8 == a[8] + b[8] + (s7 \div LimbBase)
    IN  <<s1 % LimbBase, s2 % LimbBase, s3 % LimbBase, s4 % LimbBase,
          s5 % LimbBase, s6 % LimbBase, s7 % LimbBase, s8 % LimbBase>>
Sub8(a, b) ==
    LET d1 == a[1] - b[1]
        d2 == a[2] - b[2] + (d1 \div LimbBase)
        d3 == a[3] - b[3] + (d2 \div LimbBase)
        d4 == a[4] - b[4] + (d3 \div LimbBase)
        d5 == a[5] - b[5] + (d4 \div LimbBase)
        d6 == a[6] - b[6] + (d5 \div LimbBase)
        d7 == a[7] - b[7] + (d6 \div LimbBase)
        d8 == a[8] - b[8] + (d7 \div LimbBase)
    IN  <<d1 % LimbBase, d2 % LimbBase, d3 % LimbBase, d4 % LimbBase,
          d5 % LimbBase, d6 % LimbBase, d7 % LimbBase, d8 % LimbBase>>

\* a * b for a, b of 4 limbs, on 8 limbs
Mul4(a, b) ==
    LET c1 == a[1] * b[1]
        c2 == a[1] * b[2] + a[2] * b[1] + (c1 \div LimbBase)
        c3 == a[1] * b[3] + a[2] * b[2] + a[3] * b[1] + (c2 \div LimbBase)
        c4 == a[1] * b[4] + a[2] * b[3] + a[3] * b[2] + a[4] * b[1]
              + (c3 \div LimbBase)
        c5 == a[2] * b[4] + a[3] * b[3] + a[4] * b[2] + (c4 \div LimbBase)
        c6 == a[3] * b[4] + a[4] * b[3] + (c5 \div LimbBase)
        c7 == a[4] * b[4] + (c6 \div LimbBase)
    IN  <<c1 % LimbBase, c2 % LimbBase, c3 % LimbBase, c4 % LimbBase,
          c5 % LimbBase, c6 % LimbBase, c7 % LimbBase, c7 \div LimbBase>>

\* b * q on 5 limbs, for b of 4 limbs and a limb q
MulLimb(b, q) ==
    LET p1 == b[1] * q
        p2 == b[2] * q + (p1 \div LimbBase)
        p3 == b[3] * q + (p2 \div LimbBase)
        p4 == b[4] * q + (p3 \div LimbBase)
    IN  <<p1 % LimbBase, p2 % LimbBase, p3 % LimbBase, p4 % LimbBase,
          p4 \div LimbBase>>
Cmp5(a, b) ==
    IF a[5] # b[5] THEN (IF a[5] > b[5] THEN 1 ELSE 0 - 1) ELSE Cmp4(a, b)
\* a - b (a >= b) on 5 limbs; b may have 4
Sub5(a, b) ==
    LET d1 == a[1] - b[1]
        d2 == a[2] - b[2] + (d1 \div LimbBase)
        d3 == a[3] - b[3] + (d2 \div LimbBase)
        d4 == a[4] - b[4] + (d3 \div LimbBase)
        d5 == a[5] - W(b, 5) + (d4 \div LimbBase)
    IN  <<d1 % LimbBase, d2 % LimbBase, d3 % LimbBase, d4 % LimbBase,
          d5 % LimbBase>>

\* One step of long division: r (5 limbs) < b * LimbBase, the top limb of b
\* (4 limbs) at least LimbBase / 2.  The estimate of the quotient limb from
\* the two top limbs of r is at most 2 too large.
RECURSIVE DivCorrect(_, _, _, _, _)
\* the estimate qhat corrected: t is b * qhat at first
DivCorrect(r, b, qhat, t, tries) ==
    IF Cmp5(t, r) <= 0 \/ tries = 0 THEN [q |-> qhat, r |-> Sub5(r, t)]
    ELSE DivCorrect(r, b, qhat - 1, Sub5(t, b), tries - 1)
DivEstimate(r, b, qhat) == DivCorrect(r, b, qhat, MulLimb(b, qhat), 2)
DivStepBody(r, b) ==
    DivEstimate(r, b, Min(LimbBase - 1, (r[5] * LimbBase + r[4]) \div b[4]))
\* the step after step s: the remainder of s with the next limb brought down
DivNext(limb, s, b) == DivStep(<<limb, s.r[1], s.r[2], s.r[3], s.r[4]>>, b)
\* quotient (on 8 limbs) and remainder (4 limbs) of n (8 limbs) by b; the
\* top limb of b is at least LimbBase / 2, so that the quotient has 5 limbs
\* (the test makes the steps be evaluated one after the other)
Div8(n, b) ==
    LET s5 == DivStep(<<n[5], n[6], n[7], n[8], 0>>, b)
        s4 == DivNext(n[4], s5, b)
        s3 == DivNext(n[3], s4, b)
        s2 == DivNext(n[2], s3, b)
        s1 == DivNext(n[1], s2, b)
    IN  IF s5.q >= 0 /\ s4.q >= 0 /\ s3.q >= 0 /\ s2.q >= 0 /\ s1.q >= 0
        THEN [q |-> <<s1.q, s2.q, s3.q, s4.q, s5.q, 0, 0, 0>>, r |-> Low4(s1.r)]
        ELSE [q |-> Wide(Zero4), r |-> Zero4]

\* floor(sqrt(n)) for n < 2^28, by Newton's iteration from r >= sqrt(n)
RECURSIVE SqrtInt(_, _)
SqrtInt(n, r) ==
    LET r1 == (r + n \div r) \div 2
    IN  IF r1 >= r THEN r ELSE SqrtInt(n, r1)
\* floor(sqrt(n)) for 2^110 <= n < 2^112, by Newton's iteration: r1 is the
\* iterate after r
RECURSIVE SqrtWide(_, _)
SqrtNext(n, r, r1) == IF Cmp4(r1, r) >= 0 THEN r ELSE SqrtWide(n, r1)
SqrtWide(n, r) == SqrtNext(n, r, ShrTo4(Add8(Wide(r), Div8(n, r).q), 1))
Sqrt8(n) ==
    LET top == SqrtInt(n[8] * LimbBase + n[7], LimbBase)
    IN  SqrtWide(n, IF top + 1 >= LimbBase
                    THEN <<LimbBase - 1, LimbBase - 1, LimbBase - 1, LimbBase - 1>>
                    ELSE <<0, 0, 0, top + 1>>)

-----------------------------------------------------------------------------
(* IEEE 754 binary64 numbers.  A finite number is (-1)^neg * m * 2^e with  *)
(* m a natural number below 2^53 (4 limbs); it is kept in the one form     *)
(* with m >= 2^52 or e = -1074 (0 has m = 0 and e = -1074).                *)

MantBits == 52 + 1
MinExp == 0 - 1074

F64NaN == [cls |-> "nan", neg |-> FALSE, m |-> Zero4, e |-> 0]
F64Inf(neg) == [cls |-> "inf", neg |-> neg, m |-> Zero4, e |-> 0]
F64Zero(neg) == [cls |-> "fin", neg |-> neg, m |-> Zero4, e |-> MinExp]
IsNaN(x) == x.cls = "nan"
IsInf(x) == x.cls = "inf"
IsFinite(x) == x.cls = "fin"
IsZero(x) == x.cls = "fin" /\ x.m = Zero4

\* the double (-1)^neg * m * 2^e for m (4 limbs) of at most 53 bits, or 2^53
\* m * 2^e = (m * 2^k) * 2^(e - k)
Scaled(neg, m, e, k) ==
    IF k = 0 THEN [cls |-> "fin", neg |-> neg, m |-> m, e |-> e]
    ELSE [cls |-> "fin", neg |-> neg, m |-> Low4(ShlTo8(m, k)), e |-> e - k]
\* L is the number of bits of m
CanonicalBits(neg, m, e, L) ==
    IF L > 0 /\ L + e <= 1024 /\ L <= MantBits
    THEN Scaled(neg, m, e, Min(MantBits - L, e - MinExp))
    ELSE IF L = 0 THEN F64Zero(neg)
    ELSE IF L + e > 1024 THEN F64Inf(neg)
    ELSE [cls |-> "fin", neg |-> neg, m |-> ShrTo4(m, 1), e |-> e + 1]
CanonicalBody(neg, m, e) == CanonicalBits(neg, m, e, BitLen4(m))

\* (-1)^neg * w * 2^e (plus something below the last bit of w when `sticky`)
\* for w of 8 limbs, rounded to nearest, ties to even, to p bits with
\* exponents from emin on; a result of 2^emax or more is an infinity
\* the rounded mantissa q2 with its exponent
Rounded(neg, q2, e, emax) ==
    IF BitLen4(q2) + e > emax THEN F64Inf(neg) ELSE Canonical(neg, q2, e)
\* q is w without its last `shift` bits: up when the first bit dropped is
\* set and a later one is, or q is odd
RoundUp(w, sticky, shift, q) ==
    IF /\ BitOf(w, shift - 1) = 1
       /\ (sticky \/ LowNonZero(w, shift - 1) \/ q[1] % 2 = 1)
    THEN Inc4(q) ELSE q
\* L is the number of bits of w, `shift` the number of bits to drop
RoundShift(neg, w, e, sticky, emax, L, shift) ==
    IF L > 0 /\ shift > 0 /\ shift <= L + 1
    THEN Rounded(neg, RoundUp(w, sticky, shift, ShrTo4(w, shift)), e + shift,
                 emax)
    ELSE IF L = 0 \/ shift > L + 1 THEN F64Zero(neg)
    ELSE IF L + e > emax THEN F64Inf(neg)
    ELSE Canonical(neg, Low4(w), e)
RoundWide(neg, w, e, sticky, p, emin, emax) ==
    LET L == BitLen8(w)
    IN  RoundShift(neg, w, e, sticky, emax, L, Max(L - p, emin - e))
Round64Body(neg, w, e, sticky) == RoundWide(neg, w, e, sticky, 53, MinExp, 1024)

\* Math.fround, the value stored by a Float32Array
F64FroundBody(x) ==
    IF x.cls # "fin" THEN x
    ELSE RoundWide(x.neg, Wide(x.m), x.e, FALSE, 24, 0 - 149, 128)

F64Neg(x) == IF IsNaN(x) THEN x ELSE [x EXCEPT !.neg = ~x.neg]
F64Abs(x) == IF IsNaN(x) THEN x ELSE [x EXCEPT !.neg = FALSE]

\* the integer n (below 2^31 in size) as a double
\* the natural number a below 2^31 in limbs
Limbs(a) ==
    <<a % LimbBase, (a \div LimbBase) % LimbBase, a \div (LimbBase * LimbBase),
      0>>
F64FromIntBody(n) == Canonical(n < 0, Limbs(IF n < 0 THEN 0 - n ELSE n), 0)

\* the sum from the mantissas mh and ml, brought to the exponent e; c is
\* 1, 0 or -1 as mh > ml, mh = ml or mh < ml
AddMantissas(hneg, lneg, mh, ml, e, c) ==
    IF c = 0 THEN F64Zero(FALSE)
    ELSE IF c > 0 THEN Round64(hneg, Sub8(mh, ml), e, FALSE)
    ELSE Round64(lneg, Sub8(ml, mh), e, FALSE)
AddAligned(hneg, lneg, mh, ml, e) ==
    IF hneg = lneg THEN Round64(hneg, Add8(mh, ml), e, FALSE)
    ELSE AddMantissas(hneg, lneg, mh, ml, e, Cmp8(mh, ml))
\* hi + lo for finite non-zero numbers, the exponent of hi not below lo's
AddOrderedBody(hi, lo) ==
    IF hi.e - lo.e > 56 THEN hi
    ELSE AddAligned(hi.neg, lo.neg, ShlTo8(hi.m, hi.e - lo.e), Wide(lo.m), lo.e)
\* x + y
\* both numbers are finite and not 0
Regular(x, y) == x.cls = "fin" /\ y.cls = "fin" /\ x.m # Zero4 /\ y.m # Zero4
F64AddBody(x, y) ==
    IF Regular(x, y) /\ x.e >= y.e THEN AddOrdered(x, y)
    ELSE IF Regular(x, y) THEN AddOrdered(y, x)
    ELSE IF IsNaN(x) \/ IsNaN(y) THEN F64NaN
    ELSE IF IsInf(x) THEN (IF IsInf(y) /\ x.neg # y.neg THEN F64NaN ELSE x)
    ELSE IF IsInf(y) THEN y
    ELSE IF IsZero(x) THEN (IF IsZero(y) THEN F64Zero(x.neg /\ y.neg) ELSE y)
    ELSE x
\* x - y
F64SubBody(x, y) == F64Add(x, F64Neg(y))

\* x * y
F64MulBody(x, y) ==
    IF Regular(x, y)
    THEN Round64(x.neg # y.neg, Mul4(x.m, y.m), x.e + y.e, FALSE)
    ELSE IF IsNaN(x) \/ IsNaN(y) THEN F64NaN
    ELSE IF IsInf(x) \/ IsInf(y)
         THEN IF IsZero(x) \/ IsZero(y) THEN F64NaN ELSE F64Inf(x.neg # y.neg)
    ELSE F64Zero(x.neg # y.neg)

\* the quotient from the result dm of the long division
DivRound(neg, dm, e) == Round64(neg, dm.q, e, dm.r # Zero4)
\* the mantissa m of L bits brought to 56 bits
To56(m, L) == Low4(ShlTo8(m, 56 - L))
\* x / y for finite non-zero numbers with mantissas of lx and ly bits: both
\* mantissas are brought to 56 bits, the dividend times 2^56
DivBits(x, y, lx, ly) ==
    DivRound(x.neg # y.neg, Div8(ShlTo8(x.m, 112 - lx), To56(y.m, ly)),
             (x.e - y.e) + (lx - ly) - 56)
\* x / y
F64DivBody(x, y) ==
    IF Regular(x, y) THEN DivBits(x, y, BitLen4(x.m), BitLen4(y.m))
    ELSE IF IsNaN(x) \/ IsNaN(y) THEN F64NaN
    ELSE IF IsInf(x) THEN (IF IsInf(y) THEN F64NaN ELSE F64Inf(x.neg # y.neg))
    ELSE IF IsInf(y) THEN F64Zero(x.neg # y.neg)
    ELSE IF IsZero(y) THEN (IF IsZero(x) THEN F64NaN ELSE F64Inf(x.neg # y.neg))
    ELSE F64Zero(x.neg # y.neg)

\* the root from r = floor(sqrt(n))
SqrtRound(n, r, e) == Round64(FALSE, Wide(r), e, Mul4(r, r) # n)
\* sqrt(m * 2^e) for n = m * 2^k, e - k even
SqrtOf(n, e) == SqrtRound(n, Sqrt8(n), e \div 2)
SqrtShifted(x, k) == SqrtOf(ShlTo8(x.m, k), x.e - k)
\* the mantissa is brought to 111 or 112 bits, the exponent made even
SqrtEven(x, k0) == SqrtShifted(x, IF (x.e - k0) % 2 = 0 THEN k0 ELSE k0 + 1)
\* Math.sqrt(x)
F64SqrtBody(x) ==
    IF Regular(x, x) /\ ~x.neg THEN SqrtEven(x, 111 - BitLen4(x.m))
    ELSE IF IsNaN(x) THEN F64NaN
    ELSE IF IsZero(x) THEN x
    ELSE IF x.neg THEN F64NaN
    ELSE x

\* -1, 0, 1 as |x| < |y|, |x| = |y|, |x| > |y| for finite x, y
CmpMagnitude(x, y) ==
    IF IsZero(x) THEN (IF IsZero(y) THEN 0 ELSE 0 - 1)
    ELSE IF IsZero(y) THEN 1
    ELSE IF x.e # y.e THEN (IF x.e > y.e THEN 1 ELSE 0 - 1)
    ELSE Cmp4(x.m, y.m)
\* x < y as the code evaluates it: FALSE when either side is NaN
F64LessBody(x, y) ==
    IF IsNaN(x) \/ IsNaN(y) THEN FALSE
    ELSE IF IsInf(x) THEN x.neg /\ ~(IsInf(y) /\ y.neg)
    ELSE IF IsInf(y) THEN ~y.neg
    ELSE IF IsZero(x) /\ IsZero(y) THEN FALSE
    ELSE IF x.neg # y.neg THEN x.neg
    ELSE IF x.neg THEN CmpMagnitude(x, y) > 0
    ELSE CmpMagnitude(x, y) < 0
F64GreaterBody(x, y) == F64Less(y, x)
\* x === y
F64EqualBody(x, y) ==
    IF IsNaN(x) \/ IsNaN(y) THEN FALSE
    ELSE IF IsZero(x) /\ IsZero(y) THEN TRUE
    ELSE x = y
F64LessEqBody(x, y) == F64Less(x, y) \/ F64Equal(x, y)
F64GreaterEqBody(x, y) == F64LessEq(y, x)

\* Math.min(x, y) and Math.max(x, y)
F64MinBody(x, y) ==
    IF IsNaN(x) \/ IsNaN(y) THEN F64NaN
    ELSE IF IsZero(x) /\ IsZero(y) THEN F64Zero(x.neg \/ y.neg)
    ELSE IF F64Less(y, x) THEN y ELSE x
F64MaxBody(x, y) ==
    IF IsNaN(x) \/ IsNaN(y) THEN F64NaN
    ELSE IF IsZero(x) /\ IsZero(y) THEN F64Zero(x.neg /\ y.neg)
    ELSE IF F64Less(x, y) THEN y ELSE x

\* Math.floor(x)
F64FloorBody(x) ==
    IF x.cls # "fin" \/ IsZero(x) \/ x.e >= 0 THEN x
    ELSE IF 0 - x.e > 53 THEN (IF x.neg THEN F64FromInt(0 - 1) ELSE F64Zero(FALSE))
    ELSE IF x.neg /\ LowNonZero(x.m, 0 - x.e)
         THEN Canonical(TRUE, Inc4(ShrTo4(x.m, 0 - x.e)), 0)
    ELSE Canonical(x.neg, ShrTo4(x.m, 0 - x.e), 0)
\* Math.round(x): the integer nearest to x, a tie going up
F64RoundBody(x) ==
    IF x.cls # "fin" \/ IsZero(x) \/ x.e >= 0 THEN x
    ELSE IF 0 - x.e > 54 THEN F64Zero(x.neg)
    ELSE IF /\ BitOf(x.m, (0 - x.e) - 1) = 1
            /\ (~x.neg \/ LowNonZero(x.m, (0 - x.e) - 1))
         THEN Canonical(x.neg, Inc4(ShrTo4(x.m, 0 - x.e)), 0)
    ELSE Canonical(x.neg, ShrTo4(x.m, 0 - x.e), 0)

\* the integer value of a double that holds an integer below 2^31 in size
Magnitude3(m) == m[1] + LimbBase * m[2] + LimbBase * LimbBase * m[3]
Signed(neg, mag) == IF neg THEN 0 - mag ELSE mag
F64ToIntBody(x) ==
    Signed(x.neg, Magnitude3(IF x.e >= 0 THEN Low4(ShlTo8(x.m, x.e))
                             ELSE ShrTo4(x.m, 0 - x.e)))
-----------------------------------------------------------------------------
(* Math.cos, Math.sin, Math.exp and Math.log2 as the engine computes them: *)
(* the fdlibm algorithms, every step a double operation.                   *)

\* the double with mantissa m (4 limbs, 2^52 <= m < 2^53) and exponent e
F64Lit(neg, m, e) == [cls |-> "fin", neg |-> neg, m |-> m, e |-> e]
\* the double nearest to n / d for integers n, d: the decimal literal n / d
DecBody(n, d) == F64Div(F64FromInt(n), F64FromInt(d))
One == F64FromInt(1)
Two == F64FromInt(2)
Half == Dec(1, 2)

\* the high word of |x|: the exponent field and the top 20 fraction bits
HighWordBody(x) ==
    IF IsNaN(x) THEN \h7ff80000
    ELSE IF IsInf(x) THEN \h7ff00000
    ELSE IF x.m[4] >= 1024
         THEN (x.e + 1075) * 1048576 + ((x.m[3] \div 16) + x.m[4] * 1024 - 1048576)
         ELSE (x.m[3] \div 16) + x.m[4] * 1024
\* the exponent field of x
ExpField(x) == HighWord(x) \div 1048576
\* x with the low word (the low 32 fraction bits) cleared
ClearLowWord(x) ==
    IF x.cls # "fin" THEN x
    ELSE [x EXCEPT !.m = <<0, 0, (x.m[3] \div 16) * 16, x.m[4]>>]
\* the low word of x is 0
LowWordZero(x) == x.m[1] = 0 /\ x.m[2] = 0 /\ x.m[3] % 16 = 0
\* 2^k for -1022 <= k <= 1023
F64Pow2(k) == F64Lit(FALSE, <<0, 0, 0, 1024>>, k - 52)
\* (int) x: the integer x is truncated to, for |x| < 2^31
TruncateBody(x) ==
    IF IsZero(x) \/ x.e <= 0 - 53 THEN 0
    ELSE IF x.e >= 0 THEN F64ToInt(x)
    ELSE Signed(x.neg, Magnitude3(ShrTo4(x.m, 0 - x.e)))

\* c[1] + z * (c[2] + ... + z * (c[i] + z * acc)), the terms from the
\* inside out (a NaN stays a NaN through every further term)
RECURSIVE HornerFrom(_, _, _, _)
HornerFrom(z, c, i, acc) ==
    IF i = 0 THEN acc
    ELSE LET next == F64Add(c[i], F64Mul(z, acc))
         IN  IF IsNaN(next) THEN next ELSE HornerFrom(z, c, i - 1, next)
\* c[1] + z * (c[2] + z * (c[3] + ... + z * c[n])) for the n coefficients c
HornerBody(z, c) == HornerFrom(z, c, Len(c) - 1, c[Len(c)])

\* Math.PI
PI == F64Lit(FALSE, <<11544, 4368, 8117, 1608>>, 0 - 51)

\* the coefficients of __kernel_sin and __kernel_cos
\* -1.66666666666666324348e-01
S1 == F64Lit(TRUE, <<5449, 5461, 5461, 1365>>, 0 - 55)
\* 8.33333333332248946124e-03
S2 == F64Lit(FALSE, <<14502, 1091, 4369, 1092>>, 0 - 59)
\* -1.98412698298579493134e-04
S3 == F64Lit(TRUE, <<8661, 9989, 6657, 1664>>, 0 - 65)
\* 2.75573137070700676789e-06
S4 == F64Lit(FALSE, <<15997, 7879, 7733, 1479>>, 0 - 71)
\* -2.50507602534068634195e-08
S5 == F64Lit(TRUE, <<7403, 10414, 7784, 1721>>, 0 - 78)
\* 1.58969099521155010221e-10
S6 == F64Lit(FALSE, <<5500, 11071, 5029, 1398>>, 0 - 85)
\* 4.16666666666666019037e-02
C1 == F64Lit(FALSE, <<5452, 5461, 5461, 1365>>, 0 - 57)
\* -1.38888888888741095749e-03
C2 == F64Lit(TRUE, <<4471, 6917, 5825, 1456>>, 0 - 62)
\* 2.48015872894767294178e-05
C3 == F64Lit(FALSE, <<5520, 10028, 6657, 1664>>, 0 - 68)
\* -2.75573143513906633035e-07
C4 == F64Lit(TRUE, <<4781, 625, 9464, 1183>>, 0 - 74)
\* 2.08757232129817482790e-09
C5 == F64Lit(FALSE, <<12740, 14034, 10731, 1147>>, 0 - 81)
\* -1.13596475577881948265e-11
C6 == F64Lit(TRUE, <<14548, 14880, 11931, 1598>>, 0 - 89)

\* `result`, once the values of the tuple have been evaluated from left to
\* right: the statements of the code in their order
After(values, result) == IF Len(values) >= 0 THEN result ELSE result

\* __kernel_sin(x, y, iy): sin(x + y) for |x| <= pi/4, y the tail of x
\* (iy = 0 when y is 0)
KernelSinBody(x, y, iy) ==
    IF HighWord(x) < \h3e400000 THEN x
    ELSE LET z == F64Mul(x, x)
             v == F64Mul(z, x)
             r == Horner(z, <<S2, S3, S4, S5, S6>>)
             \* x + v * (S1 + z * r)
             zr == F64Mul(z, r)
             s == F64Add(S1, zr)
             vs == F64Mul(v, s)
             \* x - ((z * (half * y - v * r) - y) - v * S1)
             hy == F64Mul(Half, y)
             vr == F64Mul(v, r)
             d == F64Sub(hy, vr)
             zd == F64Mul(z, d)
             zdy == F64Sub(zd, y)
             vS1 == F64Mul(v, S1)
             t == F64Sub(zdy, vS1)
         IN  IF iy = 0
             THEN After(<<z, v, r, zr, s, vs>>, F64Add(x, vs))
             ELSE After(<<z, v, r, hy, vr, d, zd, zdy, vS1, t>>, F64Sub(x, t))
\* 0.28125
KernelCosQx == Dec(9, 32)
\* __kernel_cos(x, y): cos(x + y) for |x| <= pi/4, y the tail of x
KernelCosBody(x, y) ==
    IF HighWord(x) < \h3e400000 THEN One
    ELSE LET ix == HighWord(x)
             z == F64Mul(x, x)
             h == Horner(z, <<C1, C2, C3, C4, C5, C6>>)
             r == F64Mul(z, h)
             zr == F64Mul(z, r)
             xy == F64Mul(x, y)
             zrxy == F64Sub(zr, xy)
             hzz == F64Mul(Half, z)
             \* 1 - (0.5 * z - (z * r - x * y))
             t == F64Sub(hzz, zrxy)
             \* a - (hz - (z * r - x * y)) with hz = 0.5 * z - qx, a = 1 - qx
             qx == IF ix > \h3fe90000 THEN KernelCosQx
                   ELSE [cls |-> "fin", neg |-> FALSE,
                         m |-> <<0, 0, (x.m[3] \div 16) * 16, x.m[4]>>,
                         e |-> x.e - 2]
             hz == F64Sub(hzz, qx)
             a == F64Sub(One, qx)
             u == F64Sub(hz, zrxy)
         IN  IF ix < \h3FD33333
             THEN After(<<z, h, r, zr, xy, zrxy, hzz, t>>, F64Sub(One, t))
             ELSE After(<<z, h, r, zr, xy, zrxy, hzz, hz, a, u>>, F64Sub(a, u))

\* the constants of __ieee754_rem_pio2
\* 6.36619772367581382433e-01
invpio2 == F64Lit(FALSE, <<2179, 14119, 13062, 1303>>, 0 - 53)
\* 1.57079632673412561417e+00
pio2_1 == F64Lit(FALSE, <<0, 4352, 8117, 1608>>, 0 - 52)
\* 6.07710050650619224932e-11
pio2_1t == F64Lit(FALSE, <<9009, 10633, 1553, 1069>>, 0 - 86)
\* 6.07710050630396597660e-11
pio2_2 == F64Lit(FALSE, <<0, 10624, 1553, 1069>>, 0 - 86)
\* 2.02226624879595063154e-21
pio2_2t == F64Lit(FALSE, <<12403, 14349, 6306, 1222>>, 0 - 121)
\* 2.02226624871116645580e-21
pio2_3 == F64Lit(FALSE, <<0, 14336, 6306, 1222>>, 0 - 121)
\* 8.47842766036889956997e-32
pio2_3t == F64Lit(FALSE, <<2497, 5249, 14754, 1760>>, 0 - 156)
\* the high words of n * pi/2 for n = 1 .. 32
npio2_hw ==
    <<\h3FF921FB, \h400921FB, \h4012D97C, \h401921FB,
      \h401F6A7A, \h4022D97C, \h4025FDBB, \h402921FB,
      \h402C463A, \h402F6A7A, \h4031475C, \h4032D97C,
      \h40346B9C, \h4035FDBB, \h40378FDB, \h403921FB,
      \h403AB41B, \h403C463A, \h403DD85A, \h403F6A7A,
      \h40407E4C, \h4041475C, \h4042106C, \h4042D97C,
      \h4043A28C, \h40446B9C, \h404534AC, \h4045FDBB,
      \h4046C6CB, \h40478FDB, \h404858EB, \h404921FB>>

\* the result [n, y0, y1] of the reduction from r and w, for x < 0 negated
RemPio2Result(n, r, w, neg) ==
    LET y0 == F64Sub(r, w)
        ry == F64Sub(r, y0)
        y1 == F64Sub(ry, w)
    IN  After(<<y0, ry, y1>>,
              IF neg THEN [n |-> 0 - n, y0 |-> F64Neg(y0), y1 |-> F64Neg(y1)]
              ELSE [n |-> n, y0 |-> y0, y1 |-> y1])
\* a further iteration of the reduction, with the next part p of pi/2 and
\* its tail pt: r and w from the r before (t)
RemPio2Next(fn, t, p, pt) ==
    LET wa == F64Mul(fn, p)
        r == F64Sub(t, wa)
        fpt == F64Mul(fn, pt)
        tr == F64Sub(t, r)
        c == F64Sub(tr, wa)
        w == F64Sub(fpt, c)
    IN  After(<<wa, r, fpt, tr, c, w>>, [r |-> r, w |-> w])
\* the bits cancelled by r - w: the exponent of x less that of r - w
Cancelled(ix, r, w) == (ix \div 1048576) - ExpField(F64Sub(r, w))
\* the third iteration is entered when the second cancelled too many bits
RemPio2Second(neg, ix, n, fn, s) ==
    IF Cancelled(ix, s.r, s.w) <= 49
    THEN RemPio2Result(n, s.r, s.w, neg)
    ELSE LET s3 == RemPio2Next(fn, s.r, pio2_3, pio2_3t)
         IN  After(<<s3>>, RemPio2Result(n, s3.r, s3.w, neg))
\* the second iteration is entered when x is close to a multiple of pi/2
\* and the first cancelled too many bits
RemPio2First(neg, ix, n, fn, r1, w1) ==
    IF n < 32 /\ ix # npio2_hw[n] THEN RemPio2Result(n, r1, w1, neg)
    ELSE IF Cancelled(ix, r1, w1) <= 16
    THEN RemPio2Result(n, r1, w1, neg)
    ELSE LET s2 == RemPio2Next(fn, r1, pio2_2, pio2_2t)
         IN  After(<<s2>>, RemPio2Second(neg, ix, n, fn, s2))
\* the reduction of t = |x| by n = fn quarter turns
RemPio2Medium(neg, ix, n, fn, t) ==
    LET fp == F64Mul(fn, pio2_1)
        r1 == F64Sub(t, fp)
        w1 == F64Mul(fn, pio2_1t)
    IN  After(<<fp, r1, w1>>, RemPio2First(neg, ix, n, fn, r1, w1))
\* the reduction of x with pi/4 < |x| < 3pi/4 by one quarter turn: pi/2 is
\* subtracted from x > 0 and added to x < 0 (neg), in two parts, or in three
\* when x is close to pi/2
RemPio2One(x, ix, neg) ==
    LET p1 == IF neg THEN pio2_1 ELSE F64Neg(pio2_1)
        p1t == IF neg THEN pio2_1t ELSE F64Neg(pio2_1t)
        p2 == IF neg THEN pio2_2 ELSE F64Neg(pio2_2)
        p2t == IF neg THEN pio2_2t ELSE F64Neg(pio2_2t)
        z == F64Add(x, p1)
        \* ix # 0x3ff921fb
        y0 == F64Add(z, p1t)
        zy == F64Sub(z, y0)
        y1 == F64Add(zy, p1t)
        \* x is close to pi/2
        z2 == F64Add(z, p2)
        y02 == F64Add(z2, p2t)
        zy2 == F64Sub(z2, y02)
        y12 == F64Add(zy2, p2t)
    IN  IF ix # \h3ff921fb
        THEN After(<<z, y0, zy, y1>>,
                   [n |-> IF neg THEN 0 - 1 ELSE 1, y0 |-> y0, y1 |-> y1])
        ELSE After(<<z, z2, y02, zy2, y12>>,
                   [n |-> IF neg THEN 0 - 1 ELSE 1, y0 |-> y02, y1 |-> y12])
\* __ieee754_rem_pio2(x): [n, y0, y1] with x = n * pi/2 + y0 + y1 and
\* |y0 + y1| <= pi/4, for |x| up to 2^19 * pi (the angles of a transform of
\* fewer than 2^19 points; beyond that the code reduces with a table of the
\* bits of 2/pi, which is not part of this model)
RemPio2Body(x) ==
    LET ix == HighWord(x)
        ax == F64Abs(x)
        p == F64Mul(ax, invpio2)
        q == F64Add(p, Half)
        n == Truncate(q)
        fn == F64FromInt(n)
    IN  IF ix <= \h3fe921fb THEN [n |-> 0, y0 |-> x, y1 |-> F64Zero(FALSE)]
        ELSE IF ix < \h4002d97c THEN RemPio2One(x, ix, x.neg)
        ELSE After(<<p, q, n, fn>>, RemPio2Medium(x.neg, ix, n, fn, ax))

\* Math.cos(x)
F64CosBody(x) ==
    IF x.cls # "fin" THEN F64NaN
    ELSE IF HighWord(x) <= \h3fe921fb THEN KernelCos(x, F64Zero(FALSE))
    ELSE LET p == RemPio2(x)
             q == p.n % 4
         IN  IF q = 0 THEN KernelCos(p.y0, p.y1)
             ELSE IF q = 1 THEN F64Neg(KernelSin(p.y0, p.y1, 1))
             ELSE IF q = 2 THEN F64Neg(KernelCos(p.y0, p.y1))
             ELSE KernelSin(p.y0, p.y1, 1)
\* Math.sin(x)
F64SinBody(x) ==
    IF x.cls # "fin" THEN F64NaN
    ELSE IF HighWord(x) <= \h3fe921fb THEN KernelSin(x, F64Zero(FALSE), 0)
    ELSE LET p == RemPio2(x)
             q == p.n % 4
         IN  IF q = 0 THEN KernelSin(p.y0, p.y1, 1)
             ELSE IF q = 1 THEN KernelCos(p.y0, p.y1)
             ELSE IF q = 2 THEN F64Neg(KernelSin(p.y0, p.y1, 1))
             ELSE F64Neg(KernelCos(p.y0, p.y1))

\* the constants of exp
\* 6.93147180369123816490e-01
ln2HI == F64Lit(FALSE, <<0, 15232, 9263, 1419>>, 0 - 53)
\* 1.90821492927058770002e-10
ln2LO == F64Lit(FALSE, <<15478, 5604, 7923, 1678>>, 0 - 85)
\* 1.44269504088896338700e+00
invln2 == F64Lit(FALSE, <<766, 5294, 5238, 1477>>, 0 - 52)
\* 1.66666666666666019037e-01
P1 == F64Lit(FALSE, <<5438, 5461, 5461, 1365>>, 0 - 55)
\* -2.77777777770155933842e-03
P2 == F64Lit(TRUE, <<15763, 6906, 5825, 1456>>, 0 - 61)
\* 6.61375632143793436117e-05
P3 == F64Lit(FALSE, <<7724, 15511, 9898, 1109>>, 0 - 66)
\* -1.65339022054652515390e-06
P4 == F64Lit(TRUE, <<11249, 5961, 5148, 1775>>, 0 - 72)
\* 4.13813679705723846039e-08
P5 == F64Lit(FALSE, <<9424, 2810, 13975, 1421>>, 0 - 77)
\* 7.09782712893383973096e+02
o_threshold == F64Lit(FALSE, <<14831, 15336, 9263, 1419>>, 0 - 43)
\* -7.45133219101941108420e+02
u_threshold == F64Lit(TRUE, <<12369, 5300, 4365, 1490>>, 0 - 43)
\* 9.33263618503218878990e-302
twom1000 == F64Lit(FALSE, <<0, 0, 0, 1024>>, 0 - 1052)
\* 2.718281828459045
EulerE == F64Lit(FALSE, <<5993, 11345, 12456, 1391>>, 0 - 51)

\* y * 2^k
ExpScale(y, k) ==
    IF k >= 0 - 1021
    THEN IF k = 1024
         THEN F64Mul(F64Mul(y, Two), F64Pow2(1023))
         ELSE F64Mul(y, F64Pow2(k))
    ELSE F64Mul(F64Mul(y, F64Pow2(k + 1000)), twom1000)
\* exp from the reduced argument xr = hi - lo, x = k * ln2 + xr, with
\* c = xr - t * (P1 + t * (P2 + ...)) and t = xr * xr
ExpReduced(xr, hi, lo, k) ==
    LET t == F64Mul(xr, xr)
        h == Horner(t, <<P1, P2, P3, P4, P5>>)
        th == F64Mul(t, h)
        c == F64Sub(xr, th)
        xc == F64Mul(xr, c)
        \* k = 0: 1 - ((xr * c) / (c - 2) - xr)
        c2 == F64Sub(c, Two)
        q0 == F64Div(xc, c2)
        d0 == F64Sub(q0, xr)
        \* otherwise: y = 1 - ((lo - (xr * c) / (2 - c)) - hi)
        c3 == F64Sub(Two, c)
        q == F64Div(xc, c3)
        lq == F64Sub(lo, q)
        d == F64Sub(lq, hi)
        y == F64Sub(One, d)
    IN  IF k = 0
        THEN After(<<t, h, th, c, xc, c2, q0, d0>>, F64Sub(One, d0))
        ELSE After(<<t, h, th, c, xc, c3, q, lq, d, y>>, ExpScale(y, k))
ExpSplit(hi, lo, k) ==
    LET xr == F64Sub(hi, lo)
    IN  After(<<xr>>, ExpReduced(xr, hi, lo, k))
\* the argument reduction for |x| > 1.5 ln2: k = t0 is the integer nearest
\* to x / ln2
ExpLarge(x, k, t0) ==
    LET th == F64Mul(t0, ln2HI)
        hi == F64Sub(x, th)
        lo == F64Mul(t0, ln2LO)
    IN  After(<<th, hi, lo>>, ExpSplit(hi, lo, k))
\* the argument reduction for 0.5 ln2 < |x| <= 1.5 ln2: k is 1 or -1
ExpNear(x, xsb) ==
    LET hi == F64Sub(x, IF x.neg THEN F64Neg(ln2HI) ELSE ln2HI)
    IN  After(<<hi>>, ExpSplit(hi, IF x.neg THEN F64Neg(ln2LO) ELSE ln2LO,
                               1 - xsb - xsb))
\* the argument reduction for |x| > 1.5 ln2
ExpFar(x) ==
    LET p == F64Mul(invln2, x)
        q == F64Add(p, IF x.neg THEN F64Neg(Half) ELSE Half)
        k == Truncate(q)
        t0 == F64FromInt(k)
    IN  After(<<p, q, k, t0>>, ExpLarge(x, k, t0))
\* Math.exp(x)
F64ExpBody(x) ==
    LET hx == HighWord(x)
    IN  IF x.cls = "fin" /\ hx < \h40862E42 /\ hx >= \h3FF0A2B2 THEN ExpFar(x)
        ELSE IF IsNaN(x) THEN F64NaN
        ELSE IF IsInf(x) THEN (IF x.neg THEN F64Zero(FALSE) ELSE x)
        ELSE IF hx >= \h40862E42 /\ F64Greater(x, o_threshold) THEN F64Inf(FALSE)
        ELSE IF hx >= \h40862E42 /\ F64Less(x, u_threshold) THEN F64Zero(FALSE)
        ELSE IF hx > \h3fd62e42 /\ hx < \h3FF0A2B2 /\ F64Equal(x, One) THEN EulerE
        ELSE IF hx <= \h3fd62e42 /\ hx < \h3e300000 THEN F64Add(One, x)
        \* the argument reduction: x = k * ln2 + (hi - lo)
        ELSE IF hx <= \h3fd62e42
        THEN ExpReduced(x, F64Zero(FALSE), F64Zero(FALSE), 0)
        ELSE IF hx < \h3FF0A2B2 THEN ExpNear(x, IF x.neg THEN 1 ELSE 0)
        ELSE ExpFar(x)

\* the constants of log2
\* 6.666666666666735130e-01
Lg1 == F64Lit(FALSE, <<5523, 5461, 5461, 1365>>, 0 - 53)
\* 3.999999999940941908e-01
Lg2 == F64Lit(FALSE, <<14852, 9823, 6553, 1638>>, 0 - 54)
\* 2.857142874366239149e-01
Lg3 == F64Lit(FALSE, <<4953, 4234, 4681, 1170>>, 0 - 54)
\* 2.222219843214978396e-01
Lg4 == F64Lit(FALSE, <<14511, 13881, 7249, 1820>>, 0 - 55)
\* 1.818357216161805012e-01
Lg5 == F64Lit(FALSE, <<990, 6956, 9801, 1489>>, 0 - 55)
\* 1.531383769920937332e-01
Lg6 == F64Lit(FALSE, <<1695, 483, 8349, 1254>>, 0 - 55)
\* 1.479819860511658591e-01
Lg7 == F64Lit(FALSE, <<4676, 15609, 4397, 1212>>, 0 - 55)
\* 1.80143985094819840000e+16
two54 == F64Lit(FALSE, <<0, 0, 0, 1024>>, 2)
\* 1.44269504072144627571e+00
ivln2hi == F64Lit(FALSE, <<0, 5248, 5238, 1477>>, 0 - 52)
\* 1.67517131648865118353e-10
ivln2lo == F64Lit(FALSE, <<8704, 15294, 8130, 1473>>, 0 - 85)

\* k_log1p(f): log(1 + f) - (f - f*f/2)
KLog1pBody(f) ==
    LET f2 == F64Add(Two, f)
        s == F64Div(f, f2)
        z == F64Mul(s, s)
        w == F64Mul(z, z)
        h1 == Horner(w, <<Lg2, Lg4, Lg6>>)
        t1 == F64Mul(w, h1)
        h2 == Horner(w, <<Lg1, Lg3, Lg5, Lg7>>)
        t2 == F64Mul(z, h2)
        R == F64Add(t2, t1)
        hf == F64Mul(Half, f)
        hfsq == F64Mul(hf, f)
        hR == F64Add(hfsq, R)
    IN  After(<<f2, s, z, w, h1, t1, h2, t2, R, hf, hfsq, hR>>, F64Mul(s, hR))
\* log2 of a finite x > 0 that is not 1
Log2Of(x) ==
    LET \* a subnormal x is scaled up by 2^54
        sub == x.m[4] < 1024
        xs == IF sub THEN F64Mul(x, two54) ELSE x
        k0 == (IF sub THEN 0 - 54 ELSE 0) + (ExpField(xs) - 1023)
        \* x or x/2 is brought into [sqrt(2)/2, sqrt(2))
        upper == (HighWord(xs) % 1048576) + \h95f64 >= 1048576
        xn == [xs EXCEPT !.e = IF upper THEN 0 - 53 ELSE 0 - 52]
        k == k0 + (IF upper THEN 1 ELSE 0)
        y == F64FromInt(k)
        f == F64Sub(xn, One)
        hf == F64Mul(Half, f)
        hfsq == F64Mul(hf, f)
        r == KLog1p(f)
        fh == F64Sub(f, hfsq)
        hi == ClearLowWord(fh)
        fhi == F64Sub(f, hi)
        fhh == F64Sub(fhi, hfsq)
        lo == F64Add(fhh, r)
        val_hi == F64Mul(hi, ivln2hi)
        lh == F64Add(lo, hi)
        lhl == F64Mul(lh, ivln2lo)
        ll == F64Mul(lo, ivln2hi)
        val_lo == F64Add(lhl, ll)
        w == F64Add(y, val_hi)
        yw == F64Sub(y, w)
        ywv == F64Add(yw, val_hi)
        val_lo2 == F64Add(val_lo, ywv)
    IN  After(<<xs, y, f, hf, hfsq, r, fh, hi, fhi, fhh, lo, val_hi, lh, lhl,
                ll, val_lo, w, yw, ywv, val_lo2>>,
              F64Add(val_lo2, w))
\* Math.log2(x)
F64Log2Body(x) ==
    IF Regular(x, x) /\ ~x.neg /\ ~F64Equal(x, One) THEN Log2Of(x)
    ELSE IF IsNaN(x) THEN F64NaN
    ELSE IF IsZero(x) THEN F64Inf(TRUE)
    ELSE IF x.neg THEN F64NaN
    ELSE IF IsInf(x) THEN x
    ELSE F64Zero(FALSE)
-----------------------------------------------------------------------------
(* Input buffers: `lead` zero samples followed by a repeated pattern *)

SampleVals == (0 - MaxSample) .. MaxSample
Patterns == UNION {[1 .. n -> SampleVals] : n \in 1 .. MaxPatLen}
BufferOf(lead, pat, len) ==
    [i \in 1 .. len |->
        IF i <= lead THEN 0 ELSE pat[((i - lead - 1) % Len(pat)) + 1]]

\* channelData[i] with the code's zero-based index
At(data, i) == data[i + 1]
\* the Float32 sample that the integer v stands for
SampleValue(v) == F64Fround(Dec(v, SampleDen))
\* the samples of the buffers above, computed once
SampleTable == [v \in SampleVals |-> SampleValue(v)]
Sample(v) == IF v \in SampleVals THEN SampleTable[v] ELSE SampleValue(v)

-----------------------------------------------------------------------------
(* detectDownbeat, FileInput.tsx:171-215 *)

\* lines 178, 179, 183
DownbeatWindowSize(sr) ==
    F64ToInt(F64Floor(F64Mul(F64FromInt(sr), Dec(23, 1000))))
DownbeatHopSize(sr) == Max(1, DownbeatWindowSize(sr) \div 4)
DownbeatMaxSamples(length, sr) == Min(length, sr * 30)

\* lines 189-191: `sum` after the iterations j = from .. to - 1 of the inner
\* loop.  The iterations run in the loop's order; the run is halved only to
\* keep the evaluation shallow (a NaN sum stays NaN whatever is added).
RECURSIVE SumSquares(_, _, _, _)
SumSquares(data, from, to, sum) ==
    IF from >= to THEN sum
    ELSE IF to - from = 1
         THEN F64Add(sum, F64Mul(Sample(At(data, from)), Sample(At(data, from))))
    ELSE LET mid == (from + to) \div 2
             first == SumSquares(data, from, mid, sum)
         IN  IF IsNaN(first) THEN first ELSE SumSquares(data, mid, to, first)

\* lines 187-192: the energy pushed for the window that starts at i
WindowEnergy(data, i, windowSize, maxSamples) ==
    LET end == Min(i + windowSize, maxSamples)
    IN  F64Div(SumSquares(data, i, end, F64Zero(FALSE)), F64FromInt(end - i))

\* the energies pushed by n consecutive iterations of the loop of line 186,
\* the first one at i
RECURSIVE WindowsFrom(_, _, _, _, _, _)
WindowsFrom(data, i, n, windowSize, hop, maxSamples) ==
    IF n <= 0 THEN <<>>
    ELSE IF n = 1 THEN <<WindowEnergy(data, i, windowSize, maxSamples)>>
    ELSE WindowsFrom(data, i, n \div 2, windowSize, hop, maxSamples)
         \o WindowsFrom(data, i + (n \div 2) * hop, n - (n \div 2), windowSize,
                        hop, maxSamples)

\* lines 180-193: the energy array; the loop runs for i = 0, hop, 2 * hop, ...
\* while i < maxSamples - windowSize
EnergyWindowsBody(data, sr) ==
    LET windowSize == DownbeatWindowSize(sr)
        hop == DownbeatHopSize(sr)
        maxSamples == DownbeatMaxSamples(Len(data), sr)
        n == IF maxSamples - windowSize <= 0 THEN 0
             ELSE (maxSamples - windowSize + hop - 1) \div hop
    IN  WindowsFrom(data, 0, n, windowSize, hop, maxSamples)

\* seq.slice(from - 1, to).reduce((a, b) => a + b, acc), in the order of the
\* elements
RECURSIVE ReduceSum(_, _, _, _)
ReduceSum(seq, from, to, acc) ==
    IF from > to THEN acc
    ELSE IF from = to THEN F64Add(acc, seq[from])
    ELSE LET mid == (from + to) \div 2
             first == ReduceSum(seq, from, mid, acc)
         IN  IF IsNaN(first) THEN first ELSE ReduceSum(seq, mid + 1, to, first)

\* the mean of all the energies, however many there are
BaselineOfAll(e) ==
    F64Div(ReduceSum(e, 1, Len(e), F64Zero(FALSE)), F64FromInt(Len(e)))
\* lines 200-201
Baseline(e) ==
    LET baselineSize == Min(100, Len(e))
    IN  F64Div(ReduceSum(e, 1, baselineSize, F64Zero(FALSE)),
               F64FromInt(baselineSize))

\* lines 202, 205, 206: the condition for the zero-based window index i >= 1
IsOnset(e, baseline, i) ==
    LET threshold == F64Mul(baseline, Two)
        energyIncrease == F64Sub(e[i + 1], e[i])
    IN  /\ F64Greater(e[i + 1], threshold)
        /\ F64Greater(energyIncrease, F64Mul(baseline, Dec(3, 10)))

\* line 214: the value returned when no window is an onset
\* "not found" reported as -1
NoOnsetNegative == F64FromInt(0 - 1)
NoOnsetResult == F64Zero(FALSE)

\* the start of the window before the onset
OnsetTimeOfPrevious(i, sr) ==
    F64Div(F64FromInt((i - 1) * DownbeatHopSize(sr)), F64FromInt(sr))
\* lines 208-209: window index i converted to seconds
OnsetTime(i, sr) ==
    LET downbeatSample == i * DownbeatHopSize(sr)
    IN  F64Div(F64FromInt(downbeatSample), F64FromInt(sr))

\* lines 204-211: the first window index in lo .. hi that is an onset, 0 when
\* none is
RECURSIVE FirstOnset(_, _, _, _)
FirstOnset(e, baseline, lo, hi) ==
    IF lo > hi THEN 0
    ELSE IF lo = hi THEN (IF IsOnset(e, baseline, lo) THEN lo ELSE 0)
    ELSE LET mid == (lo + hi) \div 2
             first == FirstOnset(e, baseline, lo, mid)
         IN  IF first # 0 THEN first ELSE FirstOnset(e, baseline, mid + 1, hi)

\* lines 195-214: the result, in seconds, from the energy array on
OnsetScanBody(e, sr) ==
    IF Len(e) < 2 THEN F64Zero(FALSE)
    ELSE LET i == FirstOnset(e, Baseline(e), 1, Len(e) - 1)
         IN  IF i = 0 THEN NoOnsetResult ELSE OnsetTime(i, sr)

detectDownbeat(data, sr) == OnsetScan(EnergyWindows(data, sr), sr)

-----------------------------------------------------------------------------
(* performFFT, FileInput.tsx:502-524 *)

\* 2 * Math.PI, the first product of line 511
TwoPi == F64Mul(Two, PI)

\* line 511: (2 * Math.PI * k * n) / N, the products from left to right
Angle(k, n, N) ==
    LET byK == F64Mul(TwoPi, F64FromInt(k))
        byN == F64Mul(byK, F64FromInt(n))
    IN  After(<<byK, byN>>, F64Div(byN, F64FromInt(N)))

\* the indices n of the samples of a signal that are not 0, ascending
NonZeroIndices(signal) ==
    SelectSeq([i \in 1 .. Len(signal) |-> i - 1], LAMBDA n : At(signal, n) # 0)

\* lines 511-513: signal[n] * Math.cos(angle) and signal[n] * Math.sin(angle)
DftTerm(signal, k, n) ==
    LET angle == Angle(k, n, Len(signal))
        c == F64Cos(angle)
        s == F64Sin(angle)
    IN  After(<<angle, c, s>>,
              [cosine |-> F64Mul(Sample(At(signal, n)), c),
               sine |-> F64Mul(Sample(At(signal, n)), s)])

\* lines 512-513: real += the one product, imag -= the other
DftStep(term, acc) ==
    [real |-> F64Add(acc.real, term.cosine),
     imag |-> F64Sub(acc.imag, term.sine)]

\* The iterations of the loop of line 510 for the products from .. to, in
\* the loop's order (the run is halved only to keep the evaluation shallow).
RECURSIVE DftIterations(_, _, _, _)
DftIterations(products, from, to, acc) ==
    IF from > to THEN acc
    ELSE IF from = to THEN DftStep(products[from], acc)
    ELSE LET mid == (from + to) \div 2
             first == DftIterations(products, from, mid, acc)
         IN  IF IsNaN(first.real) /\ IsNaN(first.imag) THEN first
             ELSE DftIterations(products, mid + 1, to, first)

\* the products of the iterations n = terms[1], terms[2], ... of the inner
\* loop: they do not depend on real and imag, so they are taken first
DftProducts(signal, k, terms) ==
    IF Len(terms) = 0 THEN <<>>
    ELSE SubSeq([j \in 1 .. Len(terms) |-> DftTerm(signal, k, terms[j])],
                1, Len(terms))

\* lines 507-514: real and imag of bin k.  The iterations of the samples
\* that are 0 are left out: they add 0 * cos(angle) = +-0 to real and
\* subtract +-0 from imag, which leaves both as they are, because real and
\* imag start as +0 and a sum of doubles is -0 only when both summands are -0.
DftBody(signal, k, terms) ==
    LET products == DftProducts(signal, k, terms)
    IN  After(<<products>>,
              DftIterations(products, 1, Len(products),
                            [real |-> F64Zero(FALSE), imag |-> F64Zero(FALSE)]))
\* Math.sqrt(real * real + imag * imag) (line 517)
MagnitudeOf(bin) ==
    LET realSquare == F64Mul(bin.real, bin.real)
        imagSquare == F64Mul(bin.imag, bin.imag)
        sum == F64Add(realSquare, imagSquare)
    IN  After(<<realSquare, imagSquare, sum>>, F64Sqrt(sum))

\* lines 507-517: the value stored in fft[k], a Float32
StoredMagnitude(signal, k, terms) ==
    LET bin == Dft(signal, k, terms)
        magnitude == MagnitudeOf(bin)
    IN  After(<<bin, magnitude>>, F64Fround(magnitude))

\* the values stored for the bins 0 .. n - 1: they do not depend on the
\* array, so they are taken first
StoredMagnitudes(signal, terms, n) ==
    IF n <= 0 THEN <<>>
    ELSE SubSeq([j \in 1 .. n |-> StoredMagnitude(signal, j - 1, terms)], 1, n)

\* a mirror that is off by one
MirrorIndexOffByOne(N, k) == N - k - 1
\* the index the magnitude of bin k is mirrored to (line 519)
MirrorIndex(N, k) == N - k

\* lines 517-520: the stores of the iteration of the outer loop for bin k,
\* on the array fft (0 .. N-1)
FFTStep(magnitudes, N, k, fft) ==
    LET f1 == [fft EXCEPT ![k] = magnitudes[k + 1]]
    IN  IF k > 0 /\ 2 * k < N
        THEN [f1 EXCEPT ![MirrorIndex(N, k)] = f1[k]]
        ELSE f1

\* n consecutive iterations of the loop of lines 506-521, the first one for
\* bin k, in the loop's order
RECURSIVE FFTLoop(_, _, _, _, _)
FFTLoop(magnitudes, N, k, n, fft) ==
    IF n <= 0 THEN fft
    ELSE IF n = 1 THEN FFTStep(magnitudes, N, k, fft)
    ELSE LET first == FFTLoop(magnitudes, N, k, n \div 2, fft)
         IN  IF DOMAIN first = DOMAIN fft
             THEN FFTLoop(magnitudes, N, k + (n \div 2), n - (n \div 2), first)
             ELSE fft

\* the loop runs for k = 0, 1, ... while k < N / 2
performFFTBody(signal) ==
    LET N == Len(signal)
        terms == NonZeroIndices(signal)
        magnitudes == StoredMagnitudes(signal, terms, (N + 1) \div 2)
    IN  After(<<terms, magnitudes>>,
              FFTLoop(magnitudes, N, 0, (N + 1) \div 2,
                      [i \in 0 .. N - 1 |-> F64Zero(FALSE)]))

-----------------------------------------------------------------------------
(* analyzeWaveform, FileInput.tsx:389-499 *)

\* line 399
fftSize == 1024

\* lines 398, 409-412: Math.floor of a quotient of two positive integers
samplesPerSegment(length, width) == length \div width
\* the low band ending one bin below the 250 Hz bin
lowBinMaxExclusive(fs, sr) == ((250 * fs) \div sr) - 1
lowBinMax(fs, sr) == (250 * fs) \div sr
midBinMin(fs, sr) == (250 * fs) \div sr
midBinMax(fs, sr) == (4000 * fs) \div sr
highBinMin(fs, sr) == (4000 * fs) \div sr

\* the branch of lines 462-468 that bin i takes: "low", "mid", "high" or "none"
BandOf(i, fs, sr) ==
    IF i <= lowBinMax(fs, sr) THEN "low"
    ELSE IF i >= midBinMin(fs, sr) /\ i <= midBinMax(fs, sr) THEN "mid"
    ELSE IF i >= highBinMin(fs, sr) THEN "high"
    ELSE "none"

\* lines 421-426 and 444-449: Math.min(1, rms * 2) with
\* rms = Math.sqrt(sum / segmentLength); NaN for an empty segment (0 / 0)
BrightnessBody(data, startSample, endSample) ==
    LET sum == SumSquares(data, startSample, endSample, F64Zero(FALSE))
        mean == F64Div(sum, F64FromInt(endSample - startSample))
        rms == F64Sqrt(mean)
        doubled == F64Mul(rms, Two)
    IN  After(<<sum, mean, rms, doubled>>, F64Min(One, doubled))

\* lines 438-441: the first fftSize samples of the segment, zero padded
FftSegment(data, startSample) ==
    [i \in 1 .. fftSize |->
        IF startSample + (i - 1) < Len(data)
        THEN At(data, startSample + (i - 1)) ELSE 0]

\* lines 459-469: the sum of one band after the iterations i = from .. to of
\* the loop, in the loop's order; a bin of another band leaves the sum alone
RECURSIVE BandSum(_, _, _, _, _, _)
BandSum(fftResult, band, sr, from, to, sum) ==
    IF from > to THEN sum
    ELSE IF from = to
         THEN IF BandOf(from, fftSize, sr) = band
              THEN F64Add(sum, fftResult[from]) ELSE sum
    ELSE LET mid == (from + to) \div 2
             first == BandSum(fftResult, band, sr, from, mid, sum)
         IN  IF IsNaN(first) THEN first
             ELSE BandSum(fftResult, band, sr, mid + 1, to, first)
\* lines 455-469: the loop runs for i = 1 .. fftSize / 2 - 1
BandEnergy(fftResult, band, sr) ==
    BandSum(fftResult, band, sr, 1, (fftSize \div 2) - 1, F64Zero(FALSE))

\* lines 415-416: the span [startSample, endSample) of the segment of `pixel`
SegmentSpan(length, width, pixel) ==
    LET startSample == pixel * samplesPerSegment(length, width)
    IN  [startSample |-> startSample,
         endSample |-> Min(startSample + samplesPerSegment(length, width),
                           length)]

\* Math.min(255, Math.floor(x)) (lines 480-484)
Channel(x) ==
    LET floor == F64Floor(x)
    IN  After(<<floor>>, F64Min(F64FromInt(255), floor))

\* a * 255 + b * w, the argument of Math.floor in lines 480 and 484
Mixed(a, b, w) ==
    LET first == F64Mul(a, F64FromInt(255))
        second == F64Mul(b, F64FromInt(w))
    IN  After(<<first, second>>, F64Add(first, second))

\* Math.floor(c * factor) (lines 490-492; 429-431 for 128 * brightness)
Shaded(c, brightnessFactor) ==
    LET product == F64Mul(c, brightnessFactor)
    IN  After(<<product>>, F64Floor(product))

\* line 487: 0.3 + brightness * 0.7
BrightnessFactor(brightness) ==
    LET part == F64Mul(brightness, Dec(7, 10))
    IN  After(<<part>>, F64Add(Dec(3, 10), part))

\* lines 471-496: the segment pushed for the three band sums
ColourSegment(low, mid, high, brightness) ==
    LET lowMid == F64Add(low, mid)
        totalEnergy == F64Add(lowMid, high)
        normalise == F64Greater(totalEnergy, F64Zero(FALSE))
        lowEnergy == IF normalise THEN F64Div(low, totalEnergy) ELSE low
        midEnergy == IF normalise THEN F64Div(mid, totalEnergy) ELSE mid
        highEnergy == IF normalise THEN F64Div(high, totalEnergy) ELSE high
        redMix == Mixed(lowEnergy, midEnergy, 100)
        r == Channel(redMix)
        greenMix == F64Mul(midEnergy, F64FromInt(255))
        g == Channel(greenMix)
        blueMix == Mixed(highEnergy, midEnergy, 50)
        b == Channel(blueMix)
        brightnessFactor == BrightnessFactor(brightness)
    IN  After(<<lowMid, totalEnergy, lowEnergy, midEnergy, highEnergy,
                redMix, r, greenMix, g, blueMix, b, brightnessFactor>>,
              [r |-> Shaded(r, brightnessFactor),
               g |-> Shaded(g, brightnessFactor),
               b |-> Shaded(b, brightnessFactor),
               brightness |-> brightness])

\* one iteration of the loop of lines 414-496: the grey segment of a span
\* shorter than fftSize, else the spectrum, the band sums and the colours
WaveformSegment(data, sr, width, pixel) ==
    LET length == Len(data)
        startSample == SegmentSpan(length, width, pixel).startSample
        endSample == SegmentSpan(length, width, pixel).endSample
        segmentLength == endSample - startSample
        brightness == Brightness(data, startSample, endSample)
        grey == Shaded(F64FromInt(128), brightness)
        fftResult == performFFT(FftSegment(data, startSample))
        lowSum == BandEnergy(fftResult, "low", sr)
        midSum == BandEnergy(fftResult, "mid", sr)
        highSum == BandEnergy(fftResult, "high", sr)
    IN  IF segmentLength < fftSize
        THEN After(<<brightness, grey>>,
                   [r |-> grey, g |-> grey, b |-> grey,
                    brightness |-> brightness])
        ELSE After(<<brightness, fftResult, lowSum, midSum, highSum>>,
                   ColourSegment(lowSum, midSum, highSum, brightness))

\* the segments pushed for pixel = 0 .. canvasWidth - 1, in order
analyzeWaveformBody(data, sr, width) ==
    [p \in 1 .. width |-> WaveformSegment(data, sr, width, p - 1)]

-----------------------------------------------------------------------------
(* detectBPM, FileInput.tsx:15-169 *)

\* lines 28 and 41: 1 / (2 * Math.PI * cutoff), cutoff 40 and 150
hpRC == F64Div(One, F64Mul(F64Mul(Two, PI), F64FromInt(40)))
lpRC == F64Div(One, F64Mul(F64Mul(Two, PI), F64FromInt(150)))
\* lines 29 and 42
hpAlpha(sr) ==
    LET scaled == F64Mul(hpRC, F64FromInt(sr))
        sum == F64Add(One, scaled)
    IN  After(<<scaled, sum>>, F64Div(One, sum))
lpAlpha(sr) ==
    LET scaled == F64Mul(lpRC, F64FromInt(sr))
        sum == F64Add(One, scaled)
    IN  After(<<scaled, sum>>, F64Div(One, sum))

\* lines 34-37: one iteration of the high-pass loop; out is the Float32Array
HighPassStep(data, alpha, i, st) ==
    LET input == Sample(At(data, i))
        sum == F64Add(st.hpPrevOutput, input)
        difference == F64Sub(sum, st.hpPrevInput)
        product == F64Mul(alpha, difference)
        y == F64Fround(product)
    IN  After(<<sum, difference, product, y>>,
              [out |-> Append(st.out, y), hpPrevInput |-> input,
               hpPrevOutput |-> y])
\* the iterations i = from .. to of a loop, in the loop's order; the run is
\* halved only to keep the evaluation shallow, and the test on the length
\* only fixes the order of evaluation
RECURSIVE HighPassIterations(_, _, _, _, _)
HighPassIterations(data, alpha, from, to, st) ==
    IF from > to THEN st
    ELSE IF from = to THEN HighPassStep(data, alpha, from, st)
    ELSE LET mid == (from + to) \div 2
             first == HighPassIterations(data, alpha, from, mid, st)
         IN  IF Len(first.out) >= 0
             THEN HighPassIterations(data, alpha, mid + 1, to, first)
             ELSE st
\* lines 27-38: highPassFiltered
HighPassFilter(data, sr) ==
    LET alpha == hpAlpha(sr)
    IN  After(<<alpha>>,
              HighPassIterations(data, alpha, 0, Len(data) - 1,
                                 [out |-> <<>>, hpPrevInput |-> F64Zero(FALSE),
                                  hpPrevOutput |-> F64Zero(FALSE)]).out)

\* lines 46-48: one iteration of the low-pass loop
LowPassStep(hp, alpha, i, st) ==
    LET passed == F64Mul(alpha, At(hp, i))
        rest == F64Sub(One, alpha)
        kept == F64Mul(rest, st.lpPrevOutput)
        sum == F64Add(passed, kept)
        y == F64Fround(sum)
    IN  After(<<passed, rest, kept, sum, y>>,
              [out |-> Append(st.out, y), lpPrevOutput |-> y])
RECURSIVE LowPassIterations(_, _, _, _, _)
LowPassIterations(hp, alpha, from, to, st) ==
    IF from > to THEN st
    ELSE IF from = to THEN LowPassStep(hp, alpha, from, st)
    ELSE LET mid == (from + to) \div 2
             first == LowPassIterations(hp, alpha, from, mid, st)
         IN  IF Len(first.out) >= 0
             THEN LowPassIterations(hp, alpha, mid + 1, to, first)
             ELSE st
\* lines 40-49: filtered
LowPassFilter(hp, sr) ==
    LET alpha == lpAlpha(sr)
    IN  After(<<alpha>>,
              LowPassIterations(hp, alpha, 0, Len(hp) - 1,
                                [out |-> <<>>,
                                 lpPrevOutput |-> F64Zero(FALSE)]).out)

\* lines 55-56: Math.exp(-1 / (time * sampleRate)), time 0.001 and 0.1
attackTime == Dec(1, 1000)
releaseTime == Dec(1, 10)
attackCoeff(sr) ==
    LET samples == F64Mul(attackTime, F64FromInt(sr))
        exponent == F64Div(F64FromInt(0 - 1), samples)
    IN  After(<<samples, exponent>>, F64Exp(exponent))
releaseCoeff(sr) ==
    LET samples == F64Mul(releaseTime, F64FromInt(sr))
        exponent == F64Div(F64FromInt(0 - 1), samples)
    IN  After(<<samples, exponent>>, F64Exp(exponent))

\* lines 60-66: one iteration of the envelope loop; envelopeValue stays a
\* double, the array element is its Float32
EnvelopeStep(filtered, attack, release, i, st) ==
    LET absValue == F64Abs(At(filtered, i))
        coeff == IF F64Greater(absValue, st.envelopeValue)
                 THEN attack ELSE release
        difference == F64Sub(st.envelopeValue, absValue)
        product == F64Mul(difference, coeff)
        v == F64Add(absValue, product)
    IN  After(<<difference, product, v>>,
              [out |-> Append(st.out, F64Fround(v)), envelopeValue |-> v])
RECURSIVE EnvelopeIterations(_, _, _, _, _, _)
EnvelopeIterations(filtered, attack, release, from, to, st) ==
    IF from > to THEN st
    ELSE IF from = to THEN EnvelopeStep(filtered, attack, release, from, st)
    ELSE LET mid == (from + to) \div 2
             first == EnvelopeIterations(filtered, attack, release, from, mid,
                                         st)
         IN  IF Len(first.out) >= 0
             THEN EnvelopeIterations(filtered, attack, release, mid + 1, to,
                                     first)
             ELSE st
\* lines 51-67: envelope, from filtered
EnvelopeFollower(filtered, sr) ==
    LET attack == attackCoeff(sr)
        release == releaseCoeff(sr)
    IN  After(<<attack, release>>,
              EnvelopeIterations(filtered, attack, release, 0,
                                 Len(filtered) - 1,
                                 [out |-> <<>>,
                                  envelopeValue |-> F64Zero(FALSE)]).out)
\* lines 21-67: the envelope of a buffer
EnvelopeOfBody(data, sr) ==
    LET hp == HighPassFilter(data, sr)
    IN  IF Len(hp) = Len(data)
        THEN LET filtered == LowPassFilter(hp, sr)
             IN  IF Len(filtered) = Len(data)
                 THEN EnvelopeFollower(filtered, sr) ELSE <<>>
        ELSE <<>>

\* lines 71, 77, 91, 92
BPMWindowSize(sr) == F64ToInt(F64Floor(F64Mul(F64FromInt(sr), Dec(1, 10))))
SampleStep(length) == Max(1, length \div 10000)
BPMHopSize(sr) == Max(1, sr \div 100)
LocalWindowSize(sr) == BPMWindowSize(sr) \div 2

\* lines 81-84: the body of the sampling loop at index i
GlobalStep(env, i, acc) ==
    LET val == At(env, i)
    IN  [sum |-> F64Add(acc.sum, val),
         maxVal |-> IF F64Greater(val, acc.maxVal) THEN val ELSE acc.maxVal,
         sampleCount |-> acc.sampleCount + 1]

\* n consecutive iterations of the sampling loop, the first one at index i
RECURSIVE GlobalIterations(_, _, _, _)
GlobalIterations(env, i, n, acc) ==
    IF n <= 0 THEN acc
    ELSE IF n = 1 THEN GlobalStep(env, i, acc)
    ELSE LET half == n \div 2
             first == GlobalIterations(env, i, half, acc)
         IN  IF first.sampleCount > 0
             THEN GlobalIterations(env, i + half * SampleStep(Len(env)),
                                   n - half, first)
             ELSE acc

\* lines 75-85: sum, maxVal and sampleCount over i, i + step, i + 2*step, ...
\* while i < length
GlobalStatsBody(env, i, acc) ==
    LET step == SampleStep(Len(env))
    IN  GlobalIterations(env, i, (Len(env) - i + step - 1) \div step, acc)

\* lines 87-88: mean + (maxVal - mean) * 0.3 with mean = sum / sampleCount
GlobalThreshold(env) ==
    LET st == GlobalStats(env, 0, [sum |-> F64Zero(FALSE),
                                   maxVal |-> F64Zero(FALSE),
                                   sampleCount |-> 0])
        mean == F64Div(st.sum, F64FromInt(st.sampleCount))
        above == F64Sub(st.maxVal, mean)
        part == F64Mul(above, Dec(3, 10))
    IN  After(<<st, mean, above, part>>, F64Add(mean, part))

\* line 97: the scan index i refreshes the threshold
IsRefresh(i, sr) == i % (BPMHopSize(sr) * 20) = 0

\* lines 98-103: Math.max(globalThreshold, localMean * 1.5); the mean of an
\* empty slice is 0 / 0
LocalThresholdBody(env, i, sr, globalThreshold) ==
    LET from == Max(0, i - LocalWindowSize(sr))
        to == Min(Len(env), i + LocalWindowSize(sr))
        localSum == ReduceSum(env, from + 1, to, F64Zero(FALSE))
        localMean == F64Div(localSum, F64FromInt(Max(0, to - from)))
        scaled == F64Mul(localMean, Dec(3, 2))
    IN  After(<<localSum, localMean, scaled>>, F64Max(globalThreshold, scaled))

\* a peak exactly one window after the last one accepted
AtRefractory(i, lastPeakIndex, windowSize) == i - lastPeakIndex >= windowSize
\* the refractory condition of line 110
PastRefractory(i, lastPeakIndex, windowSize) == i - lastPeakIndex > windowSize

\* lines 107-110; envelope[-1] is undefined and nothing is greater than it
IsPeak(env, i, lastThreshold, lastPeakIndex, windowSize) ==
    /\ F64Greater(At(env, i), lastThreshold)
    /\ i >= 1 /\ F64Greater(At(env, i), At(env, i - 1))
    /\ F64Greater(At(env, i), At(env, Min(Len(env) - 1, i + 1)))
    /\ PastRefractory(i, lastPeakIndex, windowSize)

\* lines 96-113: the body of the scan loop at index i, on the state
\* (peaks, lastPeakIndex, lastThreshold); `refreshed` records the iterations
\* that took the branch of line 97
PeakStep(env, sr, i, st) ==
    LET threshold == IF IsRefresh(i, sr)
                     THEN LocalThreshold(env, i, sr, st.globalThreshold)
                     ELSE st.lastThreshold
        hit == IsPeak(env, i, threshold, st.lastPeakIndex, st.windowSize)
    IN  [peaks |-> IF hit THEN Append(st.peaks, i) ELSE st.peaks,
         lastPeakIndex |-> IF hit THEN i ELSE st.lastPeakIndex,
         lastThreshold |-> threshold,
         refreshed |-> IF IsRefresh(i, sr)
                       THEN Append(st.refreshed,
                                   [index |-> i, threshold |-> threshold])
                       ELSE st.refreshed,
         globalThreshold |-> st.globalThreshold,
         windowSize |-> st.windowSize]

\* n consecutive iterations of the scan loop, the first one at index i, in
\* the loop's order; halved only to keep the evaluation shallow
RECURSIVE PeakIterations(_, _, _, _, _)
PeakIterations(env, sr, i, n, st) ==
    IF n <= 0 THEN st
    ELSE IF n = 1 THEN PeakStep(env, sr, i, st)
    ELSE LET half == n \div 2
             first == PeakIterations(env, sr, i, half, st)
         IN  \* the test only fixes the order of evaluation
             IF Len(first.peaks) >= 0
             THEN PeakIterations(env, sr, i + half * BPMHopSize(sr),
                                 n - half, first)
             ELSE st

\* lines 95-114: the scan from index i on, i += hopSize while
\* i < length - windowSize
PeakScan(env, sr, i, st) ==
    LET hop == BPMHopSize(sr)
        end == Len(env) - st.windowSize
    IN  PeakIterations(env, sr, i, (end - i + hop - 1) \div hop, st)

\* lines 70-114: the state of the scan when its loop ends
PeakScanResultBody(env, sr) ==
    LET windowSize == BPMWindowSize(sr)
        globalThreshold == GlobalThreshold(env)
    IN  PeakScan(env, sr, windowSize,
                 [peaks |-> <<>>,
                  lastPeakIndex |-> 0 - windowSize,
                  lastThreshold |-> globalThreshold,
                  refreshed |-> <<>>,
                  globalThreshold |-> globalThreshold,
                  windowSize |-> windowSize])
DetectPeaks(env, sr) == PeakScanResult(env, sr).peaks

\* lines 121-124
Intervals(pk) ==
    IF Len(pk) < 2 THEN <<>>
    ELSE [j \in 1 .. Len(pk) - 1 |-> pk[j + 1] - pk[j]]

\* lines 127-130: Math.floor of a quotient of two positive integers
minBPM == 80
maxBPM == 175
minInterval(sr) == (sr * 60) \div maxBPM
maxInterval(sr) == (sr * 60) \div minBPM

\* line 137: (60 * sampleRate) / interval
IntervalBPM(interval, sr) == F64Div(F64FromInt(60 * sr), F64FromInt(interval))
\* lines 138-142: the three bins of one interval
RoundedBPM(interval, sr) ==
    LET exact == IntervalBPM(interval, sr)
        rounded == F64Round(exact)
    IN  After(<<exact, rounded>>, F64ToInt(rounded))
HalfBPM(interval, sr) ==
    LET exact == IntervalBPM(interval, sr)
        twice == F64Mul(exact, Two)
        rounded == F64Round(twice)
    IN  After(<<exact, twice, rounded>>, F64ToInt(rounded))
DoubleBPM(interval, sr) ==
    LET exact == IntervalBPM(interval, sr)
        halved == F64Div(exact, Two)
        rounded == F64Round(halved)
    IN  After(<<exact, halved, rounded>>, F64ToInt(rounded))

\* line 136: the interval is counted at all
IntervalCounted(interval, sr) ==
    interval >= minInterval(sr) /\ interval <= maxInterval(sr)
InBPMRange(b) == b >= minBPM /\ b <= maxBPM

\* bpmHistogram[b] = (bpmHistogram[b] || 0) + w, when b is in range
\* (lines 144-152); the histogram is a function on the keys that are present
AddVote(hist, b, w) ==
    IF ~InBPMRange(b) THEN hist
    ELSE IF b \in DOMAIN hist THEN [hist EXCEPT ![b] = F64Add(@, w)]
    ELSE [c \in DOMAIN hist \cup {b} |->
             IF c = b THEN F64Add(F64Zero(FALSE), w) ELSE hist[c]]

\* lines 135-154: one iteration of the loop over the intervals
VoteStep(hist, interval, sr) ==
    IF ~IntervalCounted(interval, sr) THEN hist
    ELSE LET roundedBPM == RoundedBPM(interval, sr)
             halfBPM == HalfBPM(interval, sr)
             doubleBPM == DoubleBPM(interval, sr)
         IN  After(<<roundedBPM, halfBPM, doubleBPM>>,
                   AddVote(AddVote(AddVote(hist, roundedBPM, One),
                                   halfBPM, Half),
                           doubleBPM, Half))

\* lines 133-154: the histogram after the first n intervals
RECURSIVE HistogramAfter(_, _, _)
HistogramAfter(intervals, sr, n) ==
    IF n = 0 THEN <<>>
    ELSE VoteStep(HistogramAfter(intervals, sr, n - 1), intervals[n], sr)
HistogramBody(intervals, sr) == HistogramAfter(intervals, sr, Len(intervals))

\* 0 for "no tempo found"
FewPeaksNoTempo == 120 - 120
\* lines 117 and 158: the default BPM
FewPeaksBPM == 120
DefaultBPM == 120

\* a bin replaces the current winner on an equal count too
BeatsOrTiesMax(count, maxCount) == F64GreaterEq(count, maxCount)
\* line 161: the bin's count replaces the current maximum
BeatsMax(count, maxCount) == F64Greater(count, maxCount)

\* lines 157-165 over the bins lo .. hi: Object.entries lists integer keys in
\* ascending order, so the loop is a left-to-right fold of the bins that are
\* present; the fold of lo .. hi is the fold of its right half started from
\* the result of its left half
RECURSIVE MostCommon(_, _, _, _)
MostCommon(hist, lo, hi, acc) ==
    IF lo > hi THEN acc
    ELSE IF lo = hi
         THEN IF lo \in DOMAIN hist /\ BeatsMax(hist[lo], acc.maxCount)
              THEN [maxCount |-> hist[lo], detectedBPM |-> lo]
              ELSE acc
         ELSE LET mid == (lo + hi) \div 2
                  left == MostCommon(hist, lo, mid, acc)
              IN  IF left.detectedBPM >= 0
                  THEN MostCommon(hist, mid + 1, hi, left)
                  ELSE acc

\* line 168
ClampBPM(b) == Max(80, Min(175, b))

\* lines 116-168: the result, from the accepted peaks
BPMFromPeaksBody(pk, hist) ==
    IF Len(pk) < 2 THEN FewPeaksBPM
    ELSE ClampBPM(MostCommon(hist, minBPM, maxBPM,
                             [maxCount |-> F64Zero(FALSE),
                              detectedBPM |-> DefaultBPM]).detectedBPM)

detectBPM(data, sr) ==
    LET pk == DetectPeaks(EnvelopeOf(data, sr), sr)
    IN  BPMFromPeaks(pk, Histogram(Intervals(pk), sr))

-----------------------------------------------------------------------------
(* detectKey and calculateChroma, FileInput.tsx:217-380 *)

\* the doubles of a list of decimal literals with two places, given in
\* hundredths
HundredthsBody(seq) == SubSeq([i \in 1 .. Len(seq) |-> Dec(seq[i], 100)], 1, Len(seq))

\* the tonic and dominant weights of the major profile exchanged
MAJOR_PROFILE_Swapped ==
    Hundredths(<<519, 223, 348, 233, 438, 409, 252, 635, 239, 366, 229, 288>>)
\* lines 218-219
MAJOR_PROFILE ==
    Hundredths(<<635, 223, 348, 233, 438, 409, 252, 519, 239, 366, 229, 288>>)
MINOR_PROFILE ==
    Hundredths(<<633, 268, 352, 538, 260, 353, 254, 475, 398, 269, 334, 317>>)

\* lines 222-234
CAMELOT_MAP ==
    [k \in {"C", "C#", "Db", "D", "D#", "Eb", "E", "F", "F#", "Gb", "G", "G#",
            "Ab", "A", "A#", "Bb",
            "Cm", "C#m", "Dbm", "Dm", "D#m", "Ebm", "Em", "Fm", "F#m", "Gbm",
            "Gm", "G#m", "Abm", "Am", "A#m", "Bbm", "Bm"} |->
        CASE k = "C" -> "8B" [] k \in {"C#", "Db"} -> "3B"
          [] k = "D" -> "10B" [] k \in {"D#", "Eb"} -> "5B"
          [] k = "E" -> "12B" [] k = "F" -> "7B" [] k \in {"F#", "Gb"} -> "2B"
          [] k = "G" -> "9B" [] k \in {"G#", "Ab"} -> "4B"
          [] k = "A" -> "11B" [] k \in {"A#", "Bb"} -> "6B"
          [] k = "Cm" -> "5A" [] k \in {"C#m", "Dbm"} -> "12A"
          [] k = "Dm" -> "7A" [] k \in {"D#m", "Ebm"} -> "2A"
          [] k = "Em" -> "9A" [] k = "Fm" -> "4A" [] k \in {"F#m", "Gbm"} -> "11A"
          [] k = "Gm" -> "6A" [] k \in {"G#m", "Abm"} -> "1A"
          [] k = "Am" -> "8A" [] k \in {"A#m", "Bbm"} -> "3A"
          [] k = "Bm" -> "10A"]

\* line 311
keyNames == <<"C", "C#", "D", "D#", "E", "F", "F#", "G", "G#", "A", "A#", "B">>

\* lines 242-243
frameSize == 4096
hopSize == 2048

\* a chroma vector: 12 numbers, index 0 .. 11 of the code is 1 .. 12 here;
\* Vector(f) is the array of the 12 values of f
Vector(f) == SubSeq(f, 1, 12)
ZeroChroma == Vector([j \in 1 .. 12 |-> F64Zero(FALSE)])

\* line 254: channelData.slice(i, i + frameSize)
Frame(data, i) == SubSeq(data, i + 1, Min(Len(data), i + frameSize))

\* lines 258-260: `energy` after the iterations j = terms[from] .. terms[to]
\* of the loop, in the loop's order (the run is halved only to keep the
\* evaluation shallow).  The iterations of the samples that are 0 are left
\* out: they add 0 * 0 = +0, which leaves the sum as it is.
RECURSIVE FrameSquares(_, _, _, _, _)
FrameSquares(frame, terms, from, to, sum) ==
    IF from > to THEN sum
    ELSE IF from = to
         THEN F64Add(sum, F64Mul(Sample(At(frame, terms[from])),
                                 Sample(At(frame, terms[from]))))
    ELSE LET mid == (from + to) \div 2
             first == FrameSquares(frame, terms, from, mid, sum)
         IN  IF IsNaN(first) THEN first
             ELSE FrameSquares(frame, terms, mid + 1, to, first)

\* lines 257-261: Math.sqrt(sum of squares / frame.length)
FrameEnergy(frame) ==
    LET terms == NonZeroIndices(frame)
        squares == FrameSquares(frame, terms, 1, Len(terms), F64Zero(FALSE))
        mean == F64Div(squares, F64FromInt(Len(frame)))
    IN  After(<<squares, mean>>, F64Sqrt(mean))

\* line 370: (k * sampleRate) / fftSize
BinFrequency(k, sr, N) == F64Div(F64FromInt(k * sr), F64FromInt(N))

\* lines 373-374: Math.floor(69 + 12 * Math.log2(freq / 440)) % 12
MidiNote(freq) ==
    LET ratio == F64Div(freq, F64FromInt(440))
        octaves == F64Log2(ratio)
        semitones == F64Mul(F64FromInt(12), octaves)
    IN  After(<<ratio, octaves, semitones>>,
              F64Add(F64FromInt(69), semitones))
ChromaBin(freq) ==
    LET midiNote == MidiNote(freq)
        floor == F64Floor(midiNote)
    IN  After(<<midiNote, floor>>, F64ToInt(floor) % 12)

\* line 371, freq > 80 && freq < 5000 for freq = (k * sampleRate) / fftSize.
\* The quotient of the two integers is rounded by less than 1 / fftSize, and
\* it differs from 80 and from 5000 by 1 / fftSize or more unless it equals
\* them, so the comparisons of the doubles are those of the integers.
InMusicalRange(k, sr, N) == k * sr > 80 * N /\ k * sr < 5000 * N

\* lines 360-374 for bin k: its magnitude and, in the musical range, its
\* chroma bin (the magnitude of a bin outside the range is not used)
BinTone(frame, terms, sr, k) ==
    IF InMusicalRange(k, sr, Len(frame))
    THEN LET bin == Dft(frame, k, terms)
             magnitude == MagnitudeOf(bin)
             freq == BinFrequency(k, sr, Len(frame))
             chromaBin == ChromaBin(freq)
         IN  After(<<bin, magnitude, freq, chromaBin>>,
                   [inRange |-> TRUE, chromaBin |-> chromaBin,
                    magnitude |-> magnitude])
    ELSE [inRange |-> FALSE, chromaBin |-> 0, magnitude |-> F64Zero(FALSE)]

\* the tones of the bins 0 .. n - 1: they do not depend on the array chroma,
\* so they are taken first
BinTones(frame, terms, sr, n) ==
    IF n <= 0 THEN <<>>
    ELSE SubSeq([j \in 1 .. n |-> BinTone(frame, terms, sr, j - 1)], 1, n)

\* lines 371-375: the iteration of the loop of line 359 for bin k, on the
\* array chroma; a bin outside the musical range leaves the array alone
ChromaStep(tones, k, chroma) ==
    IF tones[k + 1].inRange
    THEN [chroma EXCEPT ![tones[k + 1].chromaBin + 1] =
                            F64Add(@, tones[k + 1].magnitude)]
    ELSE chroma

\* n consecutive iterations of the loop of line 359, the first one for bin
\* k, in the loop's order
RECURSIVE ChromaLoop(_, _, _, _)
ChromaLoop(tones, k, n, chroma) ==
    IF n <= 0 THEN chroma
    ELSE IF n = 1 THEN ChromaStep(tones, k, chroma)
    ELSE LET first == ChromaLoop(tones, k, n \div 2, chroma)
         IN  IF Len(first) = 12
             THEN ChromaLoop(tones, k + (n \div 2), n - (n \div 2), first)
             ELSE chroma

\* lines 351-380; the loop runs for k = 0, 1, ... while k < fftSize / 2
calculateChroma(frame, sr) ==
    LET terms == NonZeroIndices(frame)
        tones == BinTones(frame, terms, sr, (Len(frame) + 1) \div 2)
    IN  After(<<terms, tones>>,
              ChromaLoop(tones, 0, (Len(frame) + 1) \div 2, ZeroChroma))

\* What Meyda.extract did for one frame (lines 265-274):
\*   "chroma"    it returned features with a chroma array (line 267 holds)
\*   "unusable"  it returned, but line 267 does not hold
\*   "throws"    it threw
\* The chromaFrames and energyFrames after one iteration of lines 253-275.
PushEnergyBody(energies, frame) == Append(energies, FrameEnergy(frame))
PushChromaBody(chromas, outcome, frame, sr) ==
    IF outcome.kind = "chroma" THEN Append(chromas, outcome.chroma)
    ELSE IF outcome.kind = "throws" THEN Append(chromas, calculateChroma(frame, sr))
    ELSE chromas

\* the emptiness test on the wrong array
NoEnergyFrames(chromas, energies) == Len(energies) = 0
\* line 277
NoFrames(chromas, energies) == Len(chromas) = 0

\* lines 285-291: the iteration of the loop for frame i (1-based here) on
\* weightedChroma and totalEnergy
WeightStep(chromas, energies, i, acc) ==
    [totalEnergy |-> F64Add(acc.totalEnergy, energies[i]),
     weightedChroma |->
        Vector([j \in 1 .. 12 |->
                   F64Add(acc.weightedChroma[j],
                          F64Mul(chromas[i][j], energies[i]))])]
RECURSIVE WeightIterations(_, _, _, _)
WeightIterations(chromas, energies, i, acc) ==
    IF i > Len(chromas) THEN acc
    ELSE LET next == WeightStep(chromas, energies, i, acc)
         IN  IF Len(next.weightedChroma) = 12
             THEN WeightIterations(chromas, energies, i + 1, next)
             ELSE acc
\* lines 282-291
WeightedSumsBody(chromas, energies) ==
    WeightIterations(chromas, energies, 1,
                     [totalEnergy |-> F64Zero(FALSE),
                      weightedChroma |-> ZeroChroma])

\* lines 294-304: every entry divided by totalEnergy (0 / 0 is NaN), then by
\* chromaSum when chromaSum > 0
WeightedChromaBody(chromas, energies) ==
    LET sums == WeightedSums(chromas, energies)
        averaged == Vector([j \in 1 .. 12 |->
                               F64Div(sums.weightedChroma[j], sums.totalEnergy)])
        chromaSum == ReduceSum(averaged, 1, 12, F64Zero(FALSE))
    IN  After(<<sums, averaged, chromaSum>>,
              IF F64Greater(chromaSum, F64Zero(FALSE))
              THEN Vector([j \in 1 .. 12 |-> F64Div(averaged[j], chromaSum)])
              ELSE averaged)

\* lines 317-318 and 332-333: the products chroma[(i + keyOffset) % 12] *
\* profile[i] for i = 0 .. 11
CorrelationProducts(chroma, keyOffset, profile) ==
    Vector([i \in 1 .. 12 |->
               F64Mul(chroma[((i - 1 + keyOffset) % 12) + 1], profile[i])])
\* lines 315-319 and 330-334: `correlation` after the inner loop, the
\* products added to 0 in the order of i
CorrelationBody(chroma, keyOffset, profile) ==
    LET products == CorrelationProducts(chroma, keyOffset, profile)
    IN  After(<<products>>, ReduceSum(products, 1, 12, F64Zero(FALSE)))

\* !(correlation <= maxCorrelation): TRUE when either side is NaN
NotWorse(correlation, maxCorrelation) == ~F64LessEq(correlation, maxCorrelation)
\* correlation >= maxCorrelation: an equal correlation replaces the winner
BetterOrEqual(correlation, maxCorrelation) ==
    F64GreaterEq(correlation, maxCorrelation)
\* lines 321 and 336
Better(correlation, maxCorrelation) == F64Greater(correlation, maxCorrelation)

\* the 24 candidates in the order of lines 314-341
Candidates ==
    [c \in 1 .. 24 |->
        IF c <= 12 THEN [keyOffset |-> c - 1, scale |-> "major", profile |-> MAJOR_PROFILE]
        ELSE [keyOffset |-> c - 13, scale |-> "minor", profile |-> MINOR_PROFILE]]

\* the correlations of the 24 candidates, in the order of the scan: they do
\* not depend on the winner so far, so they are taken first
CandidateCorrelations(chroma) ==
    SubSeq([c \in 1 .. 24 |->
               Correlation(chroma, Candidates[c].keyOffset,
                           Candidates[c].profile)], 1, 24)

\* lines 321-325 and 336-340: candidate c against the winner so far
CandidateStep(correlations, c, best) ==
    IF Better(correlations[c], best.maxCorrelation)
    THEN [maxCorrelation |-> correlations[c],
          detectedKey |-> keyNames[Candidates[c].keyOffset + 1],
          detectedScale |-> Candidates[c].scale]
    ELSE best

\* lines 307-341 for the candidates lo .. hi, in their order (the run is
\* halved only to keep the evaluation shallow)
RECURSIVE CorrelationScan(_, _, _, _)
CorrelationScan(correlations, lo, hi, best) ==
    IF lo > hi THEN best
    ELSE IF lo = hi THEN CandidateStep(correlations, lo, best)
    ELSE LET mid == (lo + hi) \div 2
             first == CorrelationScan(correlations, lo, mid, best)
         IN  \* the test only fixes the order of evaluation
             IF first.detectedScale # ""
             THEN CorrelationScan(correlations, mid + 1, hi, first)
             ELSE best

\* lines 344-345
Camelot(detectedKey, detectedScale) ==
    LET keyString == IF detectedScale = "minor"
                     THEN detectedKey \o "m" ELSE detectedKey
    IN  IF keyString \in DOMAIN CAMELOT_MAP THEN CAMELOT_MAP[keyString] ELSE "8B"

\* line 278
CMajorResult == [key |-> "C", scale |-> "major", camelot |-> "8B"]

\* lines 277-347
KeyResultBody(chromas, energies) ==
    IF NoFrames(chromas, energies) THEN CMajorResult
    ELSE LET weightedChroma == WeightedChroma(chromas, energies)
             correlations == CandidateCorrelations(weightedChroma)
             best == CorrelationScan(correlations, 1, 24,
                                     [maxCorrelation |-> F64Inf(TRUE),
                                      detectedKey |-> "C",
                                      detectedScale |-> "major"])
         IN  After(<<weightedChroma, correlations, best>>,
                   [key |-> best.detectedKey, scale |-> best.detectedScale,
                    camelot |-> Camelot(best.detectedKey, best.detectedScale)])

-----------------------------------------------------------------------------
(* The beat grid of Beatgrid.tsx:32-65 (WaveformCanvas.tsx:64-95 repeats    *)
(* it line for line).  Times are doubles, in seconds.                       *)

\* line 32: 60 / bpm
secondsPerBeatBody(b) == F64Div(F64FromInt(60), F64FromInt(b))

\* the remainder a % b of the code for b > 0: it has the sign of a
JsRem(a, b) == IF a >= 0 THEN a % b ELSE 0 - ((0 - a) % b)

\* lines 46 and 59: -0 === 0 holds, so -4, -8, ... are downbeats too
IsDownbeatIndex(i) == JsRem(i, 4) = 0

\* the first loop running one beat too far
ForwardGuardInclusive(t, d) == F64LessEq(t, d)
\* lines 44 and 56: the guards of the two loops
ForwardGuard(t, d) == F64Less(t, d)
\* the second loop stopping one beat early
BackwardGuardStrict(t) == F64Greater(t, F64Zero(FALSE))
BackwardGuard(t) == F64GreaterEq(t, F64Zero(FALSE))

\* lines 45-47 and 57-59: the entry pushed or unshifted
Beat(t, i) == [time |-> t, isDownbeat |-> IsDownbeatIndex(i)]

-----------------------------------------------------------------------------
(* The upload handlers: FileInput.handleFileChange, FileInput.tsx:543-661,  *)
(* and Analyzer.handleFileChange, Analyzer.tsx:26-96.  decodeAudio and the  *)
(* four analysis functions are called once each; what a call did is an      *)
(* outcome [ok, value]: it returned value (ok) or it threw (~ok).           *)

\* FileInput.tsx:548-556, Analyzer.tsx:31-40
IsValidType(file) == file = "valid"
InvalidTypeMessage == "Please upload an MP3 or WAV file"

\* the message of the error a failing step throws
StepMessage(step) == step \o " error"
\* What a failing step throws: an Error, which has a message, or any other
\* value (decodeAudioData may reject with null or a string), which has none.
ThrownKinds == {"Error", "other"}
\* FileInput.tsx:655, Analyzer.tsx:89-90: the text used for such a value
GenericMessage == "Failed to process audio file"
\* FileInput.tsx:588-591: detectBPM's error is wrapped and thrown again
BpmFailureMessage(thrown) ==
    "BPM detection failed: " \o
        (IF thrown = "Error" THEN StepMessage("bpm") ELSE "Unknown error")

\* FileInput.tsx:603-607 and 616-620: the values used when a step throws
DownbeatFallback == 0
KeyFallback == [key |-> "C", scale |-> "major", camelot |-> "8B"]

\* FileInput.tsx:625: waveformData before analyzeWaveform returns
NoWaveformData == <<>>
\* the waveform field of audioData: `undefined` has no segments
UndefinedWaveform == [defined |-> FALSE, segments |-> <<>>]
\* FileInput.tsx:652
PublishedWaveform(waveformData) ==
    IF Len(waveformData) > 0
    THEN [defined |-> TRUE, segments |-> waveformData]
    ELSE UndefinedWaveform

\* The step of FileInput.handleFileChange that ends the try block by
\* throwing to the catch of line 654, or "none": only decodeAudio (line 572)
\* and detectBPM (lines 586-591) can.
FileInputFailure(o) ==
    IF ~o.decode.ok THEN "decode"
    ELSE IF ~o.bpm.ok THEN "bpm"
    ELSE "none"
\* The same for Analyzer.handleFileChange (the catch of line 88): no step has
\* a try block of its own.
AnalyzerFailure(o) ==
    IF ~o.decode.ok THEN "decode"
    ELSE IF ~o.bpm.ok THEN "bpm"
    ELSE IF ~o.downbeat.ok THEN "downbeat"
    ELSE IF ~o.key.ok THEN "key"
    ELSE IF ~o.waveform.ok THEN "waveform"
    ELSE "none"
HandlerFailure(comp, o) ==
    IF comp = "FileInput" THEN FileInputFailure(o) ELSE AnalyzerFailure(o)

\* FileInput.tsx:655-656, Analyzer.tsx:89-91: the message shown
FailureMessage(comp, failed, thrown) ==
    IF comp = "FileInput" /\ failed = "bpm" THEN BpmFailureMessage(thrown)
    ELSE IF thrown = "Error" THEN StepMessage(failed)
    ELSE GenericMessage

\* the `finally` block leaving the spinner on
FinallyStillLoading == TRUE
\* FileInput.tsx:658-660, Analyzer.tsx:93-95: setIsLoading(false)
FinallyLoading == FALSE

\* FileInput.tsx:647-653: the value handed to setAudioData
FileInputAudioData(o) ==
    [duration |-> o.decode.value,
     bpm |-> o.bpm.value,
     downbeatTime |-> IF o.downbeat.ok THEN o.downbeat.value ELSE DownbeatFallback,
     key |-> IF o.key.ok THEN o.key.value ELSE KeyFallback,
     waveform |-> PublishedWaveform(IF o.waveform.ok THEN o.waveform.value
                                    ELSE NoWaveformData)]
\* Analyzer.tsx:81-87
AnalyzerAudioData(o) ==
    [duration |-> o.decode.value,
     bpm |-> o.bpm.value,
     downbeatTime |-> o.downbeat.value,
     key |-> o.key.value,
     waveform |-> [defined |-> TRUE, segments |-> o.waveform.value]]
HandlerAudioData(comp, o) ==
    IF comp = "FileInput" THEN FileInputAudioData(o) ELSE AnalyzerAudioData(o)

\* the last setLoadingStep call made when the handler stops at step `failed`
\* (FileInput.tsx:560, 570, 583, 598, 611, 624; Analyzer.tsx:44, 60, 67, 73)
LastLoadingStep(comp, failed) ==
    IF comp = "FileInput"
    THEN (IF failed = "decode" THEN "Decoding audio file..."
          ELSE IF failed = "bpm" THEN "Detecting BPM..."
          ELSE "Analyzing waveform...")
    ELSE (IF failed = "decode" THEN "Uploading and decoding audio..."
          ELSE IF failed \in {"bpm", "downbeat"} THEN "Detecting BPM..."
          ELSE IF failed = "key" THEN "Detecting key..."
          ELSE "Generating waveform...")
FirstLoadingStep(comp) ==
    IF comp = "FileInput" THEN "Decoding audio file..."
    ELSE "Uploading and decoding audio..."

-----------------------------------------------------------------------------
(* Specifications: each draws the inputs of one function and applies it *)

NoKeyResult == [key |-> "", scale |-> "", camelot |-> ""]
\* the variables a specification does not use stay at these values
NoBands == binI = 0 /\ lowBins = {} /\ midBins = {} /\ highBins = {}
NoWaveform == canvasWidth = 0 /\ segments = <<>> /\ spans = <<>> /\ NoBands
NoFFT == fftOut = <<>>
NoDownbeat == downbeatOut = F64NaN /\ energy = <<>>
NoBPM == /\ envelope = <<>> /\ peaks = <<>> /\ bpmHistogram = <<>>
         /\ bpmOut = 0 /\ refreshLog = <<>>
NoGrid == /\ duration = F64NaN /\ bpm = 0 /\ downbeatTime = F64NaN
          /\ currentTime = F64NaN /\ beatIndex = 0 /\ beats = <<>>
NoUpload == /\ component = "" /\ isLoading = FALSE /\ loadingStep = ""
            /\ error = "null" /\ audioData = <<>> /\ stepLog = <<>>
NoKey == /\ keyI = 0 /\ chromaFrames = <<>> /\ energyFrames = <<>>
         /\ frameLog = <<>> /\ scanRan = FALSE /\ keyOut = NoKeyResult


\* performFFT on its own
\* longest frame handed to performFFT on its own
MaxFFTLen == 6
\* the magnitudes of a frame and of its negation are the same: patterns that
\* start with the largest sample
FFTPatterns == {p \in Patterns : p[1] = MaxSample}
InitFFT ==
    /\ pc = "idle"
    /\ sampleRate = 0
    /\ \E n \in 1 .. MaxFFTLen, lead \in 0 .. MaxPatLen, pat \in FFTPatterns :
          lead <= n /\ channelData = BufferOf(lead, pat, n)
    /\ NoWaveform /\ NoFFT /\ NoDownbeat /\ NoBPM /\ NoKey
    /\ NoGrid /\ NoUpload
RunFFT ==
    /\ pc = "idle"
    /\ fftOut' = performFFT(channelData)
    /\ pc' = "done"
    /\ UNCHANGED <<sampleRate, channelData, canvasWidth, segments, energy,
                   downbeatOut, envelope, peaks, bpmHistogram, bpmOut, keyI,
                   chromaFrames, energyFrames, frameLog, scanRan, keyOut>>
    /\ UNCHANGED <<gridVars, uploadVars, refreshLog, spans, bandVars>>
NextFFT == RunFFT
SpecFFT == InitFFT /\ [][NextFFT]_vars
\* detectDownbeat
MaxDownLen == 10
DownRates == {40, 100, 200}
\* the energy of a window depends on the squares of its samples: patterns of
\* non-negative samples and the constant patterns of either sign
DownPatterns ==
    {p \in Patterns : Len(p) = 1 \/ \A i \in 1 .. Len(p) : p[i] >= 0}
\* buffers in which an onset is decided by the rounding of the doubles: the
\* energy increase, or the energy, exceeds its bound by one unit in the last
\* place
RoundingBuffers ==
    {<<-1, 0, 0, 2, 0, 0, 0, -1, 0, 0, -1, 0, 1, 0, 0, -2, -2, 0, 2, 1>>,
     <<0, 2, 0, 0, 0, -1, 0, 1, 1, 0, 0, -1, 1, 0, 0, 2, -1, -2, -1, 2, -2, -2,
       0, 2>>,
     <<-1, 2, 1, -1, 0, 0, 0, 0, 0, 0, 0, -1, 0, -2, 1, 0, 0, -2, -1, 0>>}
\* Buffers of MaxLongLen samples at 100 Hz, where a window has 2 samples and
\* the hop is 1 sample, so that there are more than 100 energy windows and
\* the baseline is the mean of the first 100 only: the first n samples are
\* `quiet`, the ones after them `loud`.
MaxLongLen == 130
LongStarts == 97 .. 104
LongBuffer(quiet, n, loud) ==
    [i \in 1 .. MaxLongLen |-> IF i <= n THEN quiet ELSE loud]
LongBuffers ==
    {LongBuffer(quiet, n, loud) :
        quiet \in 0 .. 1, n \in LongStarts, loud \in 1 .. MaxSample}
InitDownbeat ==
    /\ pc = "idle"
    /\ \/ /\ sampleRate \in DownRates
          /\ \E len \in 0 .. MaxDownLen, lead \in 0 .. MaxDownLen,
                pat \in DownPatterns :
                lead <= len /\ channelData = BufferOf(lead, pat, len)
       \/ /\ sampleRate = 400
          /\ channelData \in RoundingBuffers
       \/ /\ sampleRate = 100
          /\ channelData \in LongBuffers
    /\ NoDownbeat
    /\ NoWaveform /\ NoFFT /\ NoBPM /\ NoKey
    /\ NoGrid /\ NoUpload
RunDownbeat ==
    /\ pc = "idle"
    /\ energy' = EnergyWindows(channelData, sampleRate)
    /\ downbeatOut' = OnsetScan(energy', sampleRate)
    /\ pc' = "done"
    /\ UNCHANGED <<sampleRate, channelData, canvasWidth, segments, fftOut,
                   envelope, peaks, bpmHistogram, bpmOut, keyI, chromaFrames,
                   energyFrames, frameLog, scanRan, keyOut>>
    /\ UNCHANGED <<gridVars, uploadVars, refreshLog, spans, bandVars>>
NextDownbeat == RunDownbeat
SpecDownbeat == InitDownbeat /\ [][NextDownbeat]_vars


\* analyzeWaveform
\* longest buffer of the short kind and widest canvas handed to analyzeWaveform
MaxWaveLen == 10
MaxWidth == 3
WaveRates == {8000, 44100}
\* a buffer of zeros with one sample v at index pos
SparseBuffer(len, pos, v) == [i \in 1 .. len |-> IF i - 1 = pos THEN v ELSE 0]
\* short buffers, whose segments are shorter than fftSize, and buffers of
\* fftSize samples and more with one click, whose segments take the spectral
\* path when the canvas is narrow
InitWaveform ==
    /\ pc = "idle"
    /\ sampleRate \in WaveRates
    /\ canvasWidth \in 1 .. MaxWidth
    /\ \/ \E len \in 0 .. MaxWaveLen, lead \in {0, 3}, pat \in Patterns :
             lead <= len /\ channelData = BufferOf(lead, pat, len)
       \/ \E len \in {fftSize, fftSize + 1, 2 * fftSize + 1},
             pos \in {0, 1, fftSize} :
             pos < len /\ channelData = SparseBuffer(len, pos, MaxSample)
    /\ segments = <<>> /\ spans = <<>> /\ NoBands
    /\ NoFFT /\ NoDownbeat /\ NoBPM /\ NoKey
    /\ NoGrid /\ NoUpload
RunWaveform ==
    /\ pc = "idle"
    /\ segments' = analyzeWaveform(channelData, sampleRate, canvasWidth)
    /\ spans' = [p \in 1 .. canvasWidth |->
                    SegmentSpan(Len(channelData), canvasWidth, p - 1)]
    /\ pc' = "done"
    /\ UNCHANGED <<sampleRate, channelData, canvasWidth, fftOut, energy,
                   downbeatOut, envelope, peaks, bpmHistogram, bpmOut, keyI,
                   chromaFrames, energyFrames, frameLog, scanRan, keyOut>>
    /\ UNCHANGED <<gridVars, uploadVars, refreshLog, bandVars>>
NextWaveform == RunWaveform
SpecWaveform == InitWaveform /\ [][NextWaveform]_vars

\* the band loop of analyzeWaveform's spectral path, lines 459-469: one
\* action per bin
BandRates == {4000, 8000, 11025, 16000, 22050, 44100, 48000, 96000, 384000}
InitBands ==
    /\ pc = "bands"
    /\ sampleRate \in BandRates
    /\ channelData = <<>>
    /\ canvasWidth = 0 /\ segments = <<>> /\ spans = <<>>
    /\ binI = 1 /\ lowBins = {} /\ midBins = {} /\ highBins = {}
    /\ NoFFT /\ NoDownbeat /\ NoBPM /\ NoKey
    /\ NoGrid /\ NoUpload
\* lines 459-468: one iteration
BandStep ==
    /\ pc = "bands"
    /\ binI < fftSize \div 2
    /\ LET band == BandOf(binI, fftSize, sampleRate)
       IN  /\ lowBins' = IF band = "low" THEN lowBins \cup {binI} ELSE lowBins
           /\ midBins' = IF band = "mid" THEN midBins \cup {binI} ELSE midBins
           /\ highBins' = IF band = "high" THEN highBins \cup {binI} ELSE highBins
    /\ binI' = binI + 1
    /\ UNCHANGED <<pc, sampleRate, channelData, canvasWidth, segments, spans,
                   fftOut, energy, downbeatOut, envelope, peaks, bpmHistogram,
                   bpmOut, keyI, chromaFrames, energyFrames, frameLog, scanRan,
                   keyOut, refreshLog>>
    /\ UNCHANGED <<gridVars, uploadVars>>
\* line 459: the loop ends at i = fftSize / 2
BandsDone ==
    /\ pc = "bands"
    /\ ~(binI < fftSize \div 2)
    /\ pc' = "done"
    /\ UNCHANGED <<analysisVars, gridVars, uploadVars>>
NextBands == BandStep \/ BandsDone
SpecBands == InitBands /\ [][NextBands]_vars

\* detectBPM on click tracks: a buffer is 0 everywhere but at the click
\* positions, where it is shape[1] (1st, 3rd, ... click) or shape[2] (2nd,
\* 4th, ... click)
MaxBPMLen == 16
BPMLens == {0, 1, 5, MaxBPMLen}
BPMRates == {14, 20}
ClickShapes == {<<MaxSample, MaxSample>>, <<MaxSample, 1>>}
RECURSIVE ClickSetsUpTo(_, _)
ClickSetsUpTo(len, k) ==
    IF k = 0 THEN {{}}
    ELSE LET prev == ClickSetsUpTo(len, k - 1)
         IN  prev \cup {c \cup {x} : c \in prev, x \in 0 .. len - 1}
\* a steady pulse: four clicks at equal distances
SteadyClicks(len) ==
    UNION {{{s, s + d, s + 2 * d, s + 3 * d} :
              d \in {e \in 1 .. len : s + 3 * e < len}} : s \in 0 .. len - 1}
\* three clicks, the first one at index 1 or 2
EarlyTriples(len) ==
    {{s, s + a, s + a + b} :
        s \in 1 .. 2,
        a \in 1 .. len, b \in {c \in 1 .. len : c + 3 <= len}}
\* up to two freely placed clicks, three clicks of which the first is early,
\* and the steady pulses
ClickSets(len) ==
    {c \in ClickSetsUpTo(len, 2) \cup EarlyTriples(len) :
        \A x \in c : x < len}
    \cup SteadyClicks(len)
ClickBuffer(len, clicks, shape) ==
    [i \in 1 .. len |->
        IF (i - 1) \in clicks
        THEN shape[2 - (Cardinality({c \in clicks : c <= i - 1}) % 2)]
        ELSE 0]
InitBPM ==
    /\ pc = "idle"
    /\ sampleRate \in BPMRates
    /\ \E len \in BPMLens, shape \in ClickShapes :
          \E clicks \in ClickSets(len) :
             channelData = ClickBuffer(len, clicks, shape)
    /\ NoBPM
    /\ NoWaveform /\ NoFFT /\ NoDownbeat /\ NoKey
    /\ NoGrid /\ NoUpload
\* lines 15-169
RunBPM ==
    /\ pc = "idle"
    /\ envelope' = EnvelopeOf(channelData, sampleRate)
    /\ \E st \in {PeakScanResult(envelope', sampleRate)} :
          peaks' = st.peaks /\ refreshLog' = st.refreshed
    /\ bpmHistogram' = Histogram(Intervals(peaks'), sampleRate)
    /\ bpmOut' = BPMFromPeaks(peaks', bpmHistogram')
    /\ pc' = "done"
    /\ UNCHANGED <<sampleRate, channelData, canvasWidth, segments, fftOut,
                   energy, downbeatOut, keyI, chromaFrames, energyFrames,
                   frameLog, scanRan, keyOut>>
    /\ UNCHANGED <<gridVars, uploadVars, spans, bandVars>>
NextBPM == RunBPM
SpecBPM == InitBPM /\ [][NextBPM]_vars

\* detectBPM on buffers long enough for the threshold refresh of lines 97-104
\* to come round several times, at sample rates whose hop is 1 and 2
MaxScanLen == 140
RefreshLens == MaxScanLen - 20 .. MaxScanLen
RefreshRates == {20, 200, 250}
RefreshClicks == {{}, {50}}
InitRefresh ==
    /\ pc = "idle"
    /\ sampleRate \in RefreshRates
    /\ \E len \in RefreshLens, clicks \in RefreshClicks :
          channelData = ClickBuffer(len, clicks, <<MaxSample, MaxSample>>)
    /\ NoBPM
    /\ NoWaveform /\ NoFFT /\ NoDownbeat /\ NoKey
    /\ NoGrid /\ NoUpload
SpecRefresh == InitRefresh /\ [][NextBPM]_vars

\* detectKey, one step per iteration of the framing loop.  The extractor's
\* answer for a frame is an input of the step.  The buffers hold no frame,
\* one frame or two frames, and are silent or hold one click: at the start
\* or right after the first frame.
MaxChroma == 1
KeyLens == {0, frameSize, frameSize + 1, frameSize + hopSize + 1}
KeyRates == {384000, 768000}
KeyClicks == {0, frameSize}
KeyBuffers ==
    {[i \in 1 .. len |-> 0] : len \in KeyLens}
    \cup {SparseBuffer(len, pos, MaxSample) : len \in KeyLens \ {0}, pos \in KeyClicks}
\* a chroma vector with weight c at C, g at G and a at A
TonesBody(c, g, a) ==
    Vector([j \in 1 .. 12 |->
               F64FromInt(IF j = 1 THEN c ELSE IF j = 8 THEN g
                          ELSE IF j = 10 THEN a ELSE 0)])
ExtractorOutcomes ==
    {[kind |-> "chroma", chroma |-> Tones(c, g, 0)] :
        c \in 0 .. MaxChroma, g \in 0 .. MaxChroma}
    \cup {[kind |-> "chroma", chroma |-> Tones(0, 0, 1)],
          [kind |-> "throws", chroma |-> ZeroChroma],
          [kind |-> "unusable", chroma |-> ZeroChroma]}
InitKey ==
    /\ pc = "framing"
    /\ sampleRate \in KeyRates
    /\ channelData \in KeyBuffers
    /\ NoKey
    /\ NoWaveform /\ NoFFT /\ NoDownbeat /\ NoBPM
    /\ NoGrid /\ NoUpload
\* one iteration of lines 253-275 with the extractor answering `outcome`
KeyFrame(outcome) ==
    /\ pc = "framing"
    /\ keyI < Len(channelData) - frameSize
    /\ LET frame == Frame(channelData, keyI)
       IN  /\ energyFrames' = PushEnergy(energyFrames, frame)
           /\ chromaFrames' = PushChroma(chromaFrames, outcome, frame, sampleRate)
           /\ frameLog' = Append(frameLog, [start |-> keyI, kind |-> outcome.kind,
                                            chroma |-> outcome.chroma])
    /\ keyI' = keyI + hopSize
    /\ UNCHANGED <<pc, sampleRate, channelData, canvasWidth, segments, fftOut,
                   energy, downbeatOut, envelope, peaks, bpmHistogram, bpmOut,
                   scanRan, keyOut>>
    /\ UNCHANGED <<gridVars, uploadVars, refreshLog, spans, bandVars>>
KeyFrameStep == \E outcome \in ExtractorOutcomes : KeyFrame(outcome)
\* the loop has ended: lines 277-347
KeyFinish ==
    /\ pc = "framing"
    /\ ~(keyI < Len(channelData) - frameSize)
    /\ scanRan' = ~NoFrames(chromaFrames, energyFrames)
    /\ keyOut' = KeyResult(chromaFrames, energyFrames)
    /\ pc' = "done"
    /\ UNCHANGED <<sampleRate, channelData, canvasWidth, segments, fftOut,
                   energy, downbeatOut, envelope, peaks, bpmHistogram, bpmOut,
                   keyI, chromaFrames, energyFrames, frameLog>>
    /\ UNCHANGED <<gridVars, uploadVars, refreshLog, spans, bandVars>>
NextKey == KeyFrameStep \/ KeyFinish
SpecKey == InitKey /\ [][NextKey]_vars

\* detectKey on a buffer of one frame with a click, the extractor answering
\* with every mix of C and G up to MaxWeight: the correlation scan on its own
MaxWeight == 25
ScanBuffer == SparseBuffer(frameSize + 1, 0, MaxSample)
ScanOutcomes ==
    {[kind |-> "chroma", chroma |-> Tones(c, g, 0)] :
        c \in 0 .. MaxWeight, g \in 0 .. MaxWeight}
InitScan ==
    /\ pc = "framing"
    /\ sampleRate = 44100
    /\ channelData = ScanBuffer
    /\ NoKey
    /\ NoWaveform /\ NoFFT /\ NoDownbeat /\ NoBPM
    /\ NoGrid /\ NoUpload
ScanFrameStep == \E outcome \in ScanOutcomes : KeyFrame(outcome)
NextScan == ScanFrameStep \/ KeyFinish
SpecScan == InitScan /\ [][NextScan]_vars

\* detectKey on two frames whose chroma is a single pitch class, or a pitch
\* class with its minor third: every one of the 24 keys is a result
TonicChromaBody(p, withMinorThird) ==
    Vector([j \in 1 .. 12 |->
               F64FromInt(IF j - 1 = p THEN 1
                          ELSE IF withMinorThird /\ j - 1 = (p + 3) % 12 THEN 1
                          ELSE 0)])
AliasOutcomes ==
    {[kind |-> "chroma", chroma |-> TonicChroma(p, m)] :
        p \in 0 .. 11, m \in BOOLEAN}
AliasBuffer == SparseBuffer(frameSize + hopSize + 1, hopSize, MaxSample)
InitAlias ==
    /\ pc = "framing"
    /\ sampleRate = 44100
    /\ channelData = AliasBuffer
    /\ NoKey
    /\ NoWaveform /\ NoFFT /\ NoDownbeat /\ NoBPM
    /\ NoGrid /\ NoUpload
AliasFrameStep == \E outcome \in AliasOutcomes : KeyFrame(outcome)
NextAlias == AliasFrameStep \/ KeyFinish
SpecAlias == InitAlias /\ [][NextAlias]_vars

\* The beat grid.  The props are the ones the upload handlers publish: a bpm
\* of detectBPM, the buffer's duration, and a downbeatTime of detectDownbeat,
\* which is 0 or the start of a window inside the buffer.  Durations and
\* downbeat times are the doubles nearest to t / TimeDen seconds, and the
\* doubles nearest to 0.35 and 1.55 seconds.
TimeDen == 5
MaxGridTime == 18
GridBPMs == {80, 120, 150, 175}
GridTimes ==
    {Dec(t, TimeDen) : t \in 0 .. MaxGridTime} \cup {Dec(7, 20), Dec(31, 20)}
InitGrid ==
    /\ pc = "forward"
    /\ bpm \in GridBPMs
    /\ duration \in GridTimes
    /\ downbeatTime \in GridTimes
    /\ IsZero(downbeatTime) \/ F64Less(downbeatTime, duration)
    /\ currentTime = downbeatTime
    /\ beatIndex = 0
    /\ beats = <<>>
    /\ NoWaveform /\ NoFFT /\ NoDownbeat /\ NoBPM /\ NoKey /\ NoUpload
    /\ sampleRate = 0 /\ channelData = <<>>
\* one iteration of the loop of lines 44-51
GridForward ==
    /\ pc = "forward"
    /\ ForwardGuard(currentTime, duration)
    /\ beats' = Append(beats, Beat(currentTime, beatIndex))
    /\ currentTime' = F64Add(currentTime, secondsPerBeat(bpm))
    /\ beatIndex' = beatIndex + 1
    /\ UNCHANGED <<pc, duration, bpm, downbeatTime, analysisVars, uploadVars>>
\* the first loop has ended: lines 53-54
GridTurn ==
    /\ pc = "forward"
    /\ ~ForwardGuard(currentTime, duration)
    /\ currentTime' = F64Sub(downbeatTime, secondsPerBeat(bpm))
    /\ beatIndex' = 0 - 1
    /\ pc' = "backward"
    /\ UNCHANGED <<beats, duration, bpm, downbeatTime, analysisVars, uploadVars>>
\* one iteration of the loop of lines 56-63
GridBackward ==
    /\ pc = "backward"
    /\ BackwardGuard(currentTime)
    /\ beats' = <<Beat(currentTime, beatIndex)>> \o beats
    /\ currentTime' = F64Sub(currentTime, secondsPerBeat(bpm))
    /\ beatIndex' = beatIndex - 1
    /\ UNCHANGED <<pc, duration, bpm, downbeatTime, analysisVars, uploadVars>>
\* the second loop has ended: the beats are drawn (line 65)
GridDone ==
    /\ pc = "backward"
    /\ ~BackwardGuard(currentTime)
    /\ pc' = "done"
    /\ UNCHANGED <<gridVars, analysisVars, uploadVars>>
NextGrid == GridForward \/ GridTurn \/ GridBackward \/ GridDone
SpecGrid == InitGrid /\ [][NextGrid]_vars
\* The loops are synchronous code inside one effect: once the effect runs,
\* each iteration and each loop exit is taken without waiting for anything.
\* Every step of the two loops changes the position or the beat index, so
\* the condition is stated on those two.
GridProgress ==
    /\ pc \in {"forward", "backward"}
    /\ pc' \in {"forward", "backward", "done"}
    /\ beatIndex' \in {beatIndex - 1, beatIndex, beatIndex + 1, 0 - 1}
SpecGridLive == SpecGrid /\ WF_<<pc, beatIndex>>(GridProgress)

\* The upload handler of one component, run any number of times.  The user
\* picks a file; a valid one is decoded (the handler waits) and analysed.
Threw == [ok |-> FALSE, value |-> 0]
Returned(v) == [ok |-> TRUE, value |-> v]
DecodeOutcomes == {Threw, Returned(3)}
BpmOutcomes == {Threw, Returned(128)}
DownbeatOutcomes == {Threw, Returned(0), Returned(1)}
KeyOutcomes == {[ok |-> FALSE, value |-> KeyFallback],
                [ok |-> TRUE, value |-> [key |-> "A", scale |-> "minor",
                                         camelot |-> "8A"]]}
WaveformOutcomes == {[ok |-> FALSE, value |-> <<>>],
                     [ok |-> TRUE, value |-> <<>>],
                     [ok |-> TRUE, value |-> <<"segment">>]}
StepOutcomes ==
    [decode : DecodeOutcomes, bpm : BpmOutcomes, downbeat : DownbeatOutcomes,
     key : KeyOutcomes, waveform : WaveformOutcomes, thrown : ThrownKinds]
InitUpload ==
    /\ pc = "ready"
    /\ component \in {"FileInput", "Analyzer"}
    /\ isLoading = FALSE /\ loadingStep = "" /\ error = "null"
    /\ audioData = <<>> /\ stepLog = <<>>
    /\ NoWaveform /\ NoFFT /\ NoDownbeat /\ NoBPM /\ NoKey /\ NoGrid
    /\ sampleRate = 0 /\ channelData = <<>>
\* the handler up to `return` (a file of the wrong type) or up to the await
\* of decodeAudio; without a file it returns at once and changes nothing
UploadStart(file) ==
    /\ pc = "ready"
    /\ IF IsValidType(file)
       THEN /\ isLoading' = TRUE
            /\ loadingStep' = FirstLoadingStep(component)
            /\ error' = "null"
            /\ audioData' = <<>>
            /\ stepLog' = <<>>
            /\ pc' = "decoding"
       ELSE /\ error' = InvalidTypeMessage
            /\ UNCHANGED <<pc, isLoading, loadingStep, audioData, stepLog>>
    /\ UNCHANGED <<component, analysisVars, gridVars>>
UploadFile == \E file \in {"invalid", "valid"} : UploadStart(file)
\* the handler from the end of decodeAudio to the end of `finally`; o is what
\* each call did (the calls after a failing step are not made)
UploadFinish(o) ==
    /\ pc = "decoding"
    /\ LET failed == HandlerFailure(component, o)
       IN  /\ IF failed = "none"
              THEN /\ audioData' = <<HandlerAudioData(component, o)>>
                   /\ UNCHANGED error
              ELSE /\ error' = FailureMessage(component, failed, o.thrown)
                   /\ UNCHANGED audioData
           /\ loadingStep' = LastLoadingStep(component, failed)
           /\ stepLog' = <<[outcomes |-> o, failed |-> failed]>>
    /\ isLoading' = FinallyLoading
    /\ pc' = "ready"
    /\ UNCHANGED <<component, analysisVars, gridVars>>
UploadAnalyse == \E o \in StepOutcomes : UploadFinish(o)
NextUpload == UploadFile \/ UploadAnalyse
SpecUpload == InitUpload /\ [][NextUpload]_vars
\* An upload whose decoding settles: the promise awaited at FileInput.tsx:572
\* / Analyzer.tsx:51 resolves or rejects, and the rest of the handler runs
\* without another await that can stay pending, through `finally`.
SpecUploadLive == SpecUpload /\ WF_vars(UploadAnalyse)
-----------------------------------------------------------------------------
\* function f applied to the arguments a
Apply(f, a) ==
    CASE f = "Round64" /\ Len(a) = 4 -> Round64Body(a[1], a[2], a[3], a[4])
      [] f = "Canonical" /\ Len(a) = 3 -> CanonicalBody(a[1], a[2], a[3])
      [] f = "DivStep" /\ Len(a) = 2 -> DivStepBody(a[1], a[2])
      [] f = "AddOrdered" /\ Len(a) = 2 -> AddOrderedBody(a[1], a[2])
      [] f = "F64Add" /\ Len(a) = 2 -> F64AddBody(a[1], a[2])
      [] f = "F64Mul" /\ Len(a) = 2 -> F64MulBody(a[1], a[2])
      [] f = "F64Sub" /\ Len(a) = 2 -> F64SubBody(a[1], a[2])
      [] f = "F64Div" /\ Len(a) = 2 -> F64DivBody(a[1], a[2])
      [] f = "F64Sqrt" /\ Len(a) = 1 -> F64SqrtBody(a[1])
      [] f = "F64Fround" /\ Len(a) = 1 -> F64FroundBody(a[1])
      [] f = "F64FromInt" /\ Len(a) = 1 -> F64FromIntBody(a[1])
      [] f = "F64Less" /\ Len(a) = 2 -> F64LessBody(a[1], a[2])
      [] f = "F64Greater" /\ Len(a) = 2 -> F64GreaterBody(a[1], a[2])
      [] f = "F64Equal" /\ Len(a) = 2 -> F64EqualBody(a[1], a[2])
      [] f = "F64LessEq" /\ Len(a) = 2 -> F64LessEqBody(a[1], a[2])
      [] f = "F64GreaterEq" /\ Len(a) = 2 -> F64GreaterEqBody(a[1], a[2])
      [] f = "F64Min" /\ Len(a) = 2 -> F64MinBody(a[1], a[2])
      [] f = "F64Max" /\ Len(a) = 2 -> F64MaxBody(a[1], a[2])
      [] f = "F64Floor" /\ Len(a) = 1 -> F64FloorBody(a[1])
      [] f = "F64Round" /\ Len(a) = 1 -> F64RoundBody(a[1])
      [] f = "F64ToInt" /\ Len(a) = 1 -> F64ToIntBody(a[1])
      [] f = "Dec" /\ Len(a) = 2 -> DecBody(a[1], a[2])
      [] f = "Truncate" /\ Len(a) = 1 -> TruncateBody(a[1])
      [] f = "HighWord" /\ Len(a) = 1 -> HighWordBody(a[1])
      [] f = "Horner" /\ Len(a) = 2 -> HornerBody(a[1], a[2])
      [] f = "KernelSin" /\ Len(a) = 3 -> KernelSinBody(a[1], a[2], a[3])
      [] f = "KernelCos" /\ Len(a) = 2 -> KernelCosBody(a[1], a[2])
      [] f = "RemPio2" /\ Len(a) = 1 -> RemPio2Body(a[1])
      [] f = "F64Cos" /\ Len(a) = 1 -> F64CosBody(a[1])
      [] f = "F64Sin" /\ Len(a) = 1 -> F64SinBody(a[1])
      [] f = "F64Exp" /\ Len(a) = 1 -> F64ExpBody(a[1])
      [] f = "KLog1p" /\ Len(a) = 1 -> KLog1pBody(a[1])
      [] f = "F64Log2" /\ Len(a) = 1 -> F64Log2Body(a[1])
      [] f = "EnergyWindows" /\ Len(a) = 2 -> EnergyWindowsBody(a[1], a[2])
      [] f = "OnsetScan" /\ Len(a) = 2 -> OnsetScanBody(a[1], a[2])
      [] f = "performFFT" /\ Len(a) = 1 -> performFFTBody(a[1])
      [] f = "Dft" /\ Len(a) = 3 -> DftBody(a[1], a[2], a[3])
      [] f = "analyzeWaveform" /\ Len(a) = 3 -> analyzeWaveformBody(a[1], a[2], a[3])
      [] f = "Brightness" /\ Len(a) = 3 -> BrightnessBody(a[1], a[2], a[3])
      [] f = "EnvelopeOf" /\ Len(a) = 2 -> EnvelopeOfBody(a[1], a[2])
      [] f = "GlobalStats" /\ Len(a) = 3 -> GlobalStatsBody(a[1], a[2], a[3])
      [] f = "LocalThreshold" /\ Len(a) = 4 -> LocalThresholdBody(a[1], a[2], a[3], a[4])
      [] f = "PeakScanResult" /\ Len(a) = 2 -> PeakScanResultBody(a[1], a[2])
      [] f = "Histogram" /\ Len(a) = 2 -> HistogramBody(a[1], a[2])
      [] f = "BPMFromPeaks" /\ Len(a) = 2 -> BPMFromPeaksBody(a[1], a[2])
      [] f = "PushChroma" /\ Len(a) = 4 -> PushChromaBody(a[1], a[2], a[3], a[4])
      [] f = "PushEnergy" /\ Len(a) = 2 -> PushEnergyBody(a[1], a[2])
      [] f = "WeightedChroma" /\ Len(a) = 2 -> WeightedChromaBody(a[1], a[2])
      [] f = "WeightedSums" /\ Len(a) = 2 -> WeightedSumsBody(a[1], a[2])
      [] f = "Correlation" /\ Len(a) = 3 -> CorrelationBody(a[1], a[2], a[3])
      [] f = "Hundredths" /\ Len(a) = 1 -> HundredthsBody(a[1])
      [] f = "KeyResult" /\ Len(a) = 2 -> KeyResultBody(a[1], a[2])
      [] f = "secondsPerBeat" /\ Len(a) = 1 -> secondsPerBeatBody(a[1])
      [] f = "Tones" /\ Len(a) = 3 -> TonesBody(a[1], a[2], a[3])
      [] f = "TonicChroma" /\ Len(a) = 2 -> TonicChromaBody(a[1], a[2])
-----------------------------------------------------------------------------
(* Claims *)

\* C10: for every real frame of even length N, performFFT returns exactly N
\* magnitudes, and for 0 < k < N the value at index k equals the one at N-k.
C10_FFTMirrored ==
    (pc = "done" /\ Len(channelData) % 2 = 0) =>
        LET N == Len(channelData)
        IN  /\ DOMAIN fftOut = 0 .. N - 1
            /\ \A k \in 1 .. N - 1 : fftOut[k] = fftOut[N - k]
\* a frame of 6 samples whose bins 1 and 2 differ and are not zero
C10_Witness ==
    /\ pc = "done" /\ Len(channelData) = 6
    /\ F64Greater(fftOut[1], F64Zero(FALSE))
    /\ F64Greater(fftOut[2], F64Zero(FALSE))
    /\ fftOut[1] # fftOut[2]
    /\ fftOut[5] = fftOut[1] /\ fftOut[4] = fftOut[2]

\* a channel value is a number in [0,255], brightness a number in [0,1]
ChannelOK(x) ==
    F64GreaterEq(x, F64Zero(FALSE)) /\ F64LessEq(x, F64FromInt(255))
BrightnessOK(x) == F64GreaterEq(x, F64Zero(FALSE)) /\ F64LessEq(x, One)
\* C2: for every length L >= 0 and width W >= 1 (also L < W) analyzeWaveform
\* returns exactly W segments, each with r, g, b in [0,255] and brightness
\* in [0,1].
C2_SegmentsInRange ==
    (pc = "done") =>
        /\ Len(segments) = canvasWidth
        /\ \A p \in 1 .. Len(segments) :
              /\ ChannelOK(segments[p].r) /\ ChannelOK(segments[p].g)
              /\ ChannelOK(segments[p].b) /\ BrightnessOK(segments[p].brightness)
\* what holds: exactly W segments, in range whenever the segments are not
\* empty (L >= W)
C2_InRangeUnlessEmpty ==
    (pc = "done") =>
        /\ Len(segments) = canvasWidth
        /\ Len(channelData) >= canvasWidth =>
              \A p \in 1 .. Len(segments) :
                 /\ ChannelOK(segments[p].r) /\ ChannelOK(segments[p].g)
                 /\ ChannelOK(segments[p].b)
                 /\ BrightnessOK(segments[p].brightness)

\* ---------------------------------------------------------------------
\* C18  analyzeWaveform's segments are contiguous spans of
\* floor(length / pixelWidth) samples, the last one extended by the
\* length mod pixelWidth remainder samples, so that the spans together
\* cover every sample of the buffer.
CoveredSamples ==
    UNION {spans[p].startSample .. spans[p].endSample - 1 : p \in DOMAIN spans}
C18_SpansCoverBuffer ==
    (pc = "done") =>
        /\ \A p \in DOMAIN spans :
              /\ spans[p].startSample
                    = (p - 1) * (Len(channelData) \div canvasWidth)
              /\ p < canvasWidth =>
                    spans[p].endSample = spans[p + 1].startSample
        /\ spans[canvasWidth].endSample = Len(channelData)
        /\ CoveredSamples = 0 .. Len(channelData) - 1
\* what holds: contiguous spans of floor(length / pixelWidth) samples each,
\* the last one included, reached with a remainder left uncovered
C18_RemainderDropped ==
    /\ pc = "done"
    /\ Len(channelData) % canvasWidth > 0
    /\ \A p \in DOMAIN spans :
          spans[p].endSample - spans[p].startSample
            = Len(channelData) \div canvasWidth
    /\ CoveredSamples
          = 0 .. canvasWidth * (Len(channelData) \div canvasWidth) - 1

\* ---------------------------------------------------------------------
\* C20  In the band loop over the 1024-point spectrum, at every sample rate,
\* every bin 1..511 is added to exactly one of the low, mid and high sums,
\* bin 0 to none, and the bins at the 250 Hz and 4000 Hz boundary indices
\* floor(250 * 1024 / sampleRate) and floor(4000 * 1024 / sampleRate), where
\* they are among the bins 1..511, go to low and mid respectively.
Boundary250 == (250 * 1024) \div sampleRate
Boundary4000 == (4000 * 1024) \div sampleRate
C20_BinsPartitioned ==
    (pc = "done") =>
        /\ lowBins \cup midBins \cup highBins = 1 .. 511
        /\ lowBins \cap midBins = {}
        /\ lowBins \cap highBins = {}
        /\ midBins \cap highBins = {}
        /\ Boundary250 \in 1 .. 511 => Boundary250 \in lowBins
        /\ Boundary4000 \in 1 .. 511 => Boundary4000 \in midBins
\* both boundary bins are among the bins summed and all three bands got bins
C20_Witness ==
    /\ pc = "done"
    /\ Boundary250 \in lowBins /\ Boundary4000 \in midBins
    /\ Boundary4000 + 1 \in highBins
    /\ Boundary250 + 1 \in midBins

\* ---------------------------------------------------------------------
\* C3  detectDownbeat never returns a negative value

\* some window index i >= 1 of the energy array satisfies the onset rule
SomeOnset(e) ==
    Len(e) >= 2 /\ \E i \in 1 .. Len(e) - 1 : IsOnset(e, Baseline(e), i)
IsZeroBuffer(data) == \A i \in 1 .. Len(data) : data[i] = 0
\* C3: detectDownbeat never returns a negative value, and returns 0 for a
\* constant-zero buffer and whenever no window satisfies the onset rule
\* (which includes buffers too short to yield 2 energy windows).
C3_DownbeatNonNegative ==
    (pc = "done") =>
        /\ IsFinite(downbeatOut) /\ ~downbeatOut.neg
        /\ (IsZeroBuffer(channelData) \/ ~SomeOnset(energy))
              => IsZero(downbeatOut)
\* a zero buffer with at least 2 energy windows gives 0
C3_Witness ==
    /\ pc = "done" /\ IsZeroBuffer(channelData) /\ IsZero(downbeatOut)
    /\ DownbeatWindowSize(sampleRate) > 0
    /\ Len(energy) >= 2

\* ---------------------------------------------------------------------
\* C17  the first window that satisfies the onset rule is returned

\* the mean of the first min(100, n) energies
MeanOfFirst(e) ==
    LET n == Min(100, Len(e))
    IN  F64Div(ReduceSum(e, 1, n, F64Zero(FALSE)), F64FromInt(n))
\* the onset rule at the zero-based window index i:
\* energy[i] > 2 * baseline and energy[i] - energy[i-1] > 0.3 * baseline
OnsetRule(e, mean, i) ==
    /\ F64Greater(e[i + 1], F64Mul(Two, mean))
    /\ F64Greater(F64Sub(e[i + 1], e[i]), F64Mul(Dec(3, 10), mean))
OnsetIndices(e) ==
    LET mean == MeanOfFirst(e)
    IN  {i \in 1 .. Len(e) - 1 : OnsetRule(e, mean, i)}
\* C17: when some window satisfies the onset rule, detectDownbeat returns
\* i * hop / sampleRate for the smallest window index i >= 1 that satisfies
\* it, the baseline being the mean energy of the first min(100, number of
\* windows) windows.
C17_FirstOnsetReturned ==
    (pc = "done" /\ Len(energy) >= 2)
    => LET onsets == OnsetIndices(energy)
       IN  onsets # {}
           => \E i \in onsets :
                 /\ \A j \in onsets : i <= j
                 /\ downbeatOut
                       = F64Div(F64FromInt(i * DownbeatHopSize(sampleRate)),
                                F64FromInt(sampleRate))
\* there are more than 100 windows, the first window that satisfies the rule
\* is the result, and with the mean of all the windows as the baseline that
\* window would not satisfy the rule
C17_Witness ==
    /\ pc = "done" /\ Len(energy) > 100
    /\ LET onsets == OnsetIndices(energy)
       IN  \E i \in onsets :
              /\ \A j \in onsets : i <= j
              /\ downbeatOut
                    = F64Div(F64FromInt(i * DownbeatHopSize(sampleRate)),
                             F64FromInt(sampleRate))
              /\ ~OnsetRule(energy, BaselineOfAll(energy), i)
\* several windows satisfy the rule, the first of them is not window 1, and
\* its start is the result
C17_WitnessSeveral ==
    /\ pc = "done" /\ Len(energy) >= 2
    /\ LET onsets == OnsetIndices(energy)
       IN  /\ Cardinality(onsets) >= 2
           /\ \E i \in onsets :
                 /\ i >= 2
                 /\ \A j \in onsets : i <= j
                 /\ downbeatOut
                       = F64Div(F64FromInt(i * DownbeatHopSize(sampleRate)),
                                F64FromInt(sampleRate))
\* an onset that the rounding of the doubles decides: in exact arithmetic the
\* energy increase of the returned window equals 0.3 * baseline
C17_WitnessRounding ==
    /\ pc = "done" /\ channelData \in RoundingBuffers
    /\ ~IsZero(downbeatOut)

HistogramEmpty(hist) == DOMAIN hist = {}
\* C1: detectBPM returns an integer in [80,175]; with fewer than 2 accepted
\* peaks, or when no histogram bin receives weight, it returns exactly 120.
C1_BPMInRange ==
    (pc = "done") =>
        /\ bpmOut \in 80 .. 175
        /\ Len(peaks) < 2 => bpmOut = 120
        /\ HistogramEmpty(bpmHistogram) => bpmOut = 120
\* two or more peaks whose intervals vote: a tempo other than the default
C1_Witness ==
    /\ pc = "done" /\ Len(peaks) >= 2 /\ ~HistogramEmpty(bpmHistogram)
    /\ bpmOut # 120 /\ bpmOut \in DOMAIN bpmHistogram
\* two or more peaks but no bin with weight: the default
C1_WitnessNoBin ==
    pc = "done" /\ Len(peaks) >= 2 /\ HistogramEmpty(bpmHistogram) /\ bpmOut = 120

\* bin b holds at least a half-weight vote
HasHalfVote(hist, b) == b \in DOMAIN hist /\ F64GreaterEq(hist[b], Half)
\* C7: every inter-peak interval gives a half-weight vote to the bins of
\* twice and of half its tempo whenever those bins lie in [80,175], also when
\* the interval's own tempo lies outside [80,175]; peaks spaced at 70 BPM
\* leave a non-zero weight in bin 140.
C7_HarmonicFolding ==
    (pc = "done") =>
        \A j \in 1 .. Len(peaks) - 1 :
            LET interval == peaks[j + 1] - peaks[j]
                half == HalfBPM(interval, sampleRate)
                double == DoubleBPM(interval, sampleRate)
            IN  /\ InBPMRange(half) => HasHalfVote(bpmHistogram, half)
                /\ InBPMRange(double) => HasHalfVote(bpmHistogram, double)
                /\ 70 * interval = 60 * sampleRate
                      => HasHalfVote(bpmHistogram, 140)
\* peaks spaced at 70 BPM and no weight in bin 140
C7_SeventyNotFolded ==
    /\ pc = "done" /\ Len(peaks) >= 2
    /\ 70 * (peaks[2] - peaks[1]) = 60 * sampleRate
    /\ 140 \notin DOMAIN bpmHistogram

\* the indices the peak scan visits (line 95), for window size w
ScanIndices(env, sr, w) ==
    {i \in w .. Len(env) - w - 1 : (i - w) % BPMHopSize(sr) = 0}
\* the threshold in force at scan index i: the one set by the latest refresh
\* at or before i, the global threshold when there was none
ActiveThreshold(globalThreshold, i) ==
    LET refreshes == {k \in DOMAIN refreshLog : refreshLog[k].index <= i}
    IN  IF refreshes = {} THEN globalThreshold
        ELSE refreshLog[CHOOSE k \in refreshes :
                           \A q \in refreshes : q <= k].threshold
\* the accepted peaks before index i
PeaksBefore(i) == {peaks[k] : k \in {j \in 1 .. Len(peaks) : peaks[j] < i}}
\* envelope value above the threshold and above both neighbours
StandsOut(env, globalThreshold, i) ==
    /\ F64Greater(At(env, i), ActiveThreshold(globalThreshold, i))
    /\ i >= 1 /\ i + 1 < Len(env)
    /\ F64Greater(At(env, i), At(env, i - 1))
    /\ F64Greater(At(env, i), At(env, i + 1))
PeaksSpaced(gap) ==
    \A k \in 1 .. Len(peaks) - 1 : peaks[k + 1] - peaks[k] >= gap
\* the scan accepted exactly the scan indices that stand out and lie at least
\* `gap` past every peak accepted before; accepted peaks are `gap` apart
AcceptedIff(gap) ==
    LET w == BPMWindowSize(sampleRate)
        globalThreshold == GlobalThreshold(envelope)
    IN  /\ \A k \in 1 .. Len(peaks) :
              peaks[k] \in ScanIndices(envelope, sampleRate, w)
        /\ \A i \in ScanIndices(envelope, sampleRate, w) :
              (\E k \in 1 .. Len(peaks) : peaks[k] = i)
              <=> /\ StandsOut(envelope, globalThreshold, i)
                  /\ \A q \in PeaksBefore(i) : i - q >= w + gap
        /\ PeaksSpaced(w + gap)
\* C13 as stated: a scan index is accepted as a peak iff its envelope value
\* exceeds the active threshold, is strictly greater than both neighbours,
\* and lies at least one window past the previously accepted peak; accepted
\* peaks are strictly increasing and at least one window apart.
C13_AtLeastOneWindow == (pc = "done") => AcceptedIff(0)
\* C13 amended: ... and lies more than one window past the previously
\* accepted peak; accepted peaks are strictly increasing and more than one
\* window apart.
C13_MoreThanOneWindow == (pc = "done") => AcceptedIff(1)
\* a click that stands out exactly one window after an accepted peak is not
\* accepted, one further on is
C13_Witness ==
    /\ pc = "done" /\ Len(peaks) >= 2
    /\ LET w == BPMWindowSize(sampleRate)
           globalThreshold == GlobalThreshold(envelope)
       IN  \E i \in ScanIndices(envelope, sampleRate, w) :
              /\ StandsOut(envelope, globalThreshold, i)
              /\ (i - w) \in PeaksBefore(i)
              /\ \A k \in 1 .. Len(peaks) : peaks[k] # i
              /\ \E k \in 1 .. Len(peaks) : peaks[k] > i

\* ---------------------------------------------------------------------
\* C14  For every positive integer sample rate the threshold refresh fires
\* at a fixed period along the scan indices windowSize + n * hopSize: every
\* multiple of 20 * hopSize inside the scanned range is an index at which
\* the scan set the threshold anew, to the larger of the global threshold
\* and 1.5 times the local mean.
\* the multiples of the refresh period inside the range of the scan
RefreshPoints(env, sr) ==
    LET w == BPMWindowSize(sr)
    IN  {m \in w .. Len(env) - w - 1 : m % (BPMHopSize(sr) * 20) = 0}
RefreshedAt(m) ==
    \E k \in DOMAIN refreshLog :
        /\ refreshLog[k].index = m
        /\ refreshLog[k].threshold
              = LocalThreshold(envelope, m, sampleRate,
                               GlobalThreshold(envelope))
C14_RefreshPeriodic ==
    pc = "done" =>
        \A m \in RefreshPoints(envelope, sampleRate) : RefreshedAt(m)
\* a scan with hop 2 whose refresh did come round, twice
C14_RefreshedTwice ==
    /\ pc = "done"
    /\ BPMHopSize(sampleRate) = 2
    /\ Len(refreshLog) = 2
    /\ \A m \in RefreshPoints(envelope, sampleRate) : RefreshedAt(m)
\* a scan that passed several refresh points and never refreshed
C14_NeverRefreshed ==
    /\ pc = "done"
    /\ Cardinality(RefreshPoints(envelope, sampleRate)) >= 2
    /\ refreshLog = <<>>

\* ---------------------------------------------------------------------
\* C15  With at least two peaks and a non-empty histogram, detectBPM
\* returns the bin with the highest accumulated weight, and among several
\* bins that share the highest weight the one the loop over the histogram
\* sees first (Object.entries lists the integer keys in ascending order):
\* a later bin with an equal weight never replaces the winner.
HeaviestBins(hist) ==
    {b \in DOMAIN hist : \A c \in DOMAIN hist : F64LessEq(hist[c], hist[b])}
FirstSeen(bins) == CHOOSE b \in bins : \A c \in bins : b <= c
C15_HeaviestBinFirstSeenWins ==
    (pc = "done" /\ Len(peaks) >= 2 /\ ~HistogramEmpty(bpmHistogram)) =>
        bpmOut = FirstSeen(HeaviestBins(bpmHistogram))
\* two bins share the highest weight and the first of them is returned
C15_Witness ==
    /\ pc = "done" /\ Len(peaks) >= 2 /\ ~HistogramEmpty(bpmHistogram)
    /\ Cardinality(HeaviestBins(bpmHistogram)) >= 2
    /\ bpmOut = FirstSeen(HeaviestBins(bpmHistogram))


\* ---------------------------------------------------------------------
\* C4  detectKey on silence

\* C4: for a buffer whose samples are all zero, whatever its length and
\* whatever the extractor answers, detectKey returns C major with Camelot 8B.
C4_SilenceIsCMajor ==
    (pc = "done" /\ IsZeroBuffer(channelData)) => keyOut = CMajorResult
\* a zero buffer with a collected chroma frame that is not zero: the scan ran
\* on NaN correlations
C4_Witness ==
    /\ pc = "done" /\ IsZeroBuffer(channelData) /\ scanRan
    /\ \E f \in 1 .. Len(chromaFrames) : chromaFrames[f] # ZeroChroma
    /\ IsNaN(WeightedChroma(chromaFrames, energyFrames)[1])
    /\ keyOut = CMajorResult

\* ---------------------------------------------------------------------
\* C5  detectKey without chroma frames

\* C5: when no chroma frame was collected, which includes every buffer of at
\* most frameSize samples, detectKey returns C major with Camelot 8B and the
\* correlation scan is not executed.
C5_NoFramesIsCMajor ==
    (pc = "done") =>
        /\ Len(channelData) <= frameSize => Len(chromaFrames) = 0
        /\ Len(chromaFrames) = 0 => (keyOut = CMajorResult /\ ~scanRan)
\* a buffer with frames none of which gave a chroma vector
C5_Witness ==
    /\ pc = "done" /\ Len(frameLog) >= 1 /\ Len(chromaFrames) = 0
    /\ ~scanRan /\ keyOut = CMajorResult
\* a buffer of exactly frameSize samples
C5_WitnessShort ==
    /\ pc = "done" /\ Len(channelData) = frameSize /\ Len(frameLog) = 0
    /\ keyOut = CMajorResult

\* ---------------------------------------------------------------------
\* C6  the scan on a profile of C and G

\* the profile the scan runs on has weight only at C and G, and some weight
TwoToneOnly(chroma) ==
    /\ \A j \in 1 .. 12 : IsFinite(chroma[j])
    /\ \A j \in (1 .. 12) \ {1, 8} : IsZero(chroma[j])
    /\ ~chroma[1].neg /\ ~chroma[8].neg
    /\ ~(IsZero(chroma[1]) /\ IsZero(chroma[8]))
\* the weight at C is at least num / den times the weight at G
AtLeastTimes(chroma, num, den) ==
    F64GreaterEq(F64Mul(F64FromInt(den), chroma[1]),
                 F64Mul(F64FromInt(num), chroma[8]))
\* C6 as stated: a normalised chroma profile that is non-zero only at C and
\* G, in any proportion, makes the scan return C major with Camelot 8B.
C6_AnyProportion ==
    (pc = "done" /\ scanRan
       /\ TwoToneOnly(WeightedChroma(chromaFrames, energyFrames)))
    => keyOut = CMajorResult
\* C6 amended: a normalised chroma profile that is non-zero only at C and G,
\* with the weight at C at least 0.52 times the weight at G, makes the scan
\* return C major with Camelot 8B.
C6_CNotDominatedByG ==
    (pc = "done" /\ scanRan)
    => LET chroma == WeightedChroma(chromaFrames, energyFrames)
       IN  (TwoToneOnly(chroma) /\ AtLeastTimes(chroma, 52, 100))
           => keyOut = CMajorResult
\* G heavier than C, within the amended proportion: still C major
C6_Witness ==
    /\ pc = "done" /\ scanRan
    /\ LET chroma == WeightedChroma(chromaFrames, energyFrames)
       IN  /\ TwoToneOnly(chroma)
           /\ ~IsZero(chroma[1]) /\ F64Greater(chroma[8], chroma[1])
           /\ ~AtLeastTimes(chroma, 55, 100)
           /\ AtLeastTimes(chroma, 52, 100)
    /\ keyOut = CMajorResult

\* ---------------------------------------------------------------------
\* C8  the fallback chroma

\* the chroma vector detectKey should hold for logged frame f
ExpectedChroma(f) ==
    IF frameLog[f].kind = "chroma" THEN frameLog[f].chroma
    ELSE calculateChroma(Frame(channelData, frameLog[f].start), sampleRate)
\* C8: for each frame in which the extractor fails, by throwing or by
\* returning no usable chroma array, detectKey uses calculateChroma's vector
\* for that frame and only that frame; frames in which it succeeds use the
\* extractor's chroma; the key estimate still completes.
C8_FallbackPerFrame ==
    /\ Len(chromaFrames) = Len(frameLog)
    /\ \A f \in 1 .. Len(chromaFrames) : chromaFrames[f] = ExpectedChroma(f)
    /\ pc = "done" => keyOut # NoKeyResult
\* C8, the part that holds: a frame whose extractor throws gets
\* calculateChroma's vector (shown reachable, with a non-zero vector)
C8_ThrowUsesFallback ==
    /\ pc = "done" /\ Len(frameLog) = 1 /\ frameLog[1].kind = "throws"
    /\ chromaFrames[1] # ZeroChroma /\ chromaFrames[1] = ExpectedChroma(1)

\* ---------------------------------------------------------------------
\* C16  the winner of the correlation scan

IsHighest(corr, c) == \A d \in 1 .. 24 : ~F64Greater(corr[d], corr[c])
FirstHighest(corr, c) ==
    /\ IsHighest(corr, c)
    /\ \A d \in 1 .. c - 1 : ~IsHighest(corr, d)
ResultIs(c) ==
    /\ keyOut.key = keyNames[Candidates[c].keyOffset + 1]
    /\ keyOut.scale = Candidates[c].scale
ProfileOfNumbers(chroma) == \A j \in 1 .. 12 : IsFinite(chroma[j])
\* C16: when the correlation scan runs on a chroma profile of numbers,
\* detectKey returns the rotation/scale pair with the highest correlation
\* among the 24 candidates, and among several candidates with the highest
\* correlation the first one in the order major 0..11, minor 0..11.
C16_HighestCorrelationFirstWins ==
    (pc = "done" /\ scanRan)
    => LET chroma == WeightedChroma(chromaFrames, energyFrames)
           corr == CandidateCorrelations(chroma)
       IN  ProfileOfNumbers(chroma)
           => \E c \in 1 .. 24 : FirstHighest(corr, c) /\ ResultIs(c)
\* several candidates share the highest correlation (a profile of zeros from
\* frames with energy: all 24 correlations are 0) and the first is the result
C16_Witness ==
    /\ pc = "done" /\ scanRan
    /\ LET chroma == WeightedChroma(chromaFrames, energyFrames)
           corr == CandidateCorrelations(chroma)
       IN  /\ ProfileOfNumbers(chroma)
           /\ Cardinality({c \in 1 .. 24 : IsHighest(corr, c)}) >= 2
           /\ \E c \in 1 .. 24 : FirstHighest(corr, c) /\ ResultIs(c)
\* the winner is not the first candidate of the scan
C16_WitnessLater ==
    /\ pc = "done" /\ scanRan
    /\ LET chroma == WeightedChroma(chromaFrames, energyFrames)
           corr == CandidateCorrelations(chroma)
       IN  /\ ProfileOfNumbers(chroma)
           /\ \E c \in 2 .. 24 : FirstHighest(corr, c) /\ ResultIs(c)

\* ---------------------------------------------------------------------
\* C19  chroma vectors and frame energies

ContributingFrames == SelectSeq(frameLog, LAMBDA e : e.kind # "unusable")
EnergyOfFrameAt(start) == FrameEnergy(Frame(channelData, start))
\* C19: after any number of iterations of the framing loop, whatever the
\* extractor answered, the list of chroma vectors and the list of frame
\* energies have the same length and agree index by index: the energy at
\* the index of a chroma vector is the energy of the frame the vector was
\* extracted from.
C19_EnergyOfOwnFrame ==
    /\ Len(chromaFrames) = Len(energyFrames)
    /\ \A f \in 1 .. Len(chromaFrames) :
          energyFrames[f] = EnergyOfFrameAt(ContributingFrames[f].start)
\* the result was computed with a chroma vector weighted by the energy of
\* another frame than its own
C19_WeightedByOtherFrame ==
    /\ pc = "done" /\ scanRan
    /\ Len(chromaFrames) = Len(ContributingFrames)
    /\ \E f \in 1 .. Len(chromaFrames) :
          energyFrames[f] # EnergyOfFrameAt(ContributingFrames[f].start)

\* ---------------------------------------------------------------------
\* C21  the alias of the detected key

DetectedKeyString ==
    IF keyOut.scale = "minor" THEN keyOut.key \o "m" ELSE keyOut.key
\* C21: for each of the 24 keys the correlation scan can produce, the
\* returned alias is the entry of the lookup table for that key, and the
\* alias 8B of the C major default is returned only when the detected key
\* is C major.
C21_AliasFromTable ==
    (pc = "done" /\ scanRan) =>
        /\ DetectedKeyString \in DOMAIN CAMELOT_MAP
        /\ keyOut.camelot = CAMELOT_MAP[DetectedKeyString]
        /\ keyOut.camelot = "8B" => (keyOut.key = "C" /\ keyOut.scale = "major")
\* the scan detected B major and the alias is that of C major
C21_BMajorGetsEightB ==
    /\ pc = "done" /\ scanRan
    /\ keyOut.key = "B" /\ keyOut.scale = "major" /\ keyOut.camelot = "8B"
\* what holds: every detected key other than B major gets its table entry,
\* and no two of those share an alias with C major
C21_AllButBMajor ==
    (pc = "done" /\ scanRan /\ DetectedKeyString # "B") =>
        /\ DetectedKeyString \in DOMAIN CAMELOT_MAP
        /\ keyOut.camelot = CAMELOT_MAP[DetectedKeyString]
        /\ keyOut.camelot = "8B" => DetectedKeyString = "C"

\* ---------------------------------------------------------------------
\* C11  the times of the beat grid

\* beat numbers are counted from the downbeat; no grid of the model has more
\* than GridSpan beats on either side of it (a beat lasts more than 0.3 s)
GridSpan == ((10 * MaxGridTime) \div (3 * TimeDen)) + 2
\* downbeatTime + n * (60 / bpm), evaluated in doubles
ProductTime(n) ==
    F64Add(downbeatTime, F64Mul(F64FromInt(n), secondsPerBeat(bpm)))
\* the times t, t + step, t + step + step, ... (count of them), each the
\* double sum of the one before and step
RECURSIVE RepeatedSums(_, _, _)
RepeatedSums(t, step, count) ==
    IF count = 0 THEN <<>>
    ELSE <<t>> \o RepeatedSums(F64Add(t, step), step, count - 1)
\* the beat numbers n with lo <= time[n] < duration among -GridSpan .. GridSpan,
\* for time[n] = after[n + 1] (n >= 0) and before[-n] (n < 0)
NumbersInRange(after, before) ==
    {n \in (0 - GridSpan) .. GridSpan :
        LET t == IF n >= 0 THEN after[n + 1] ELSE before[0 - n]
        IN  F64GreaterEq(t, F64Zero(FALSE)) /\ F64Less(t, duration)}
\* the grid is the ascending list of the times of the numbers in `numbers`,
\* and the beat of number n is a downbeat line iff n is a multiple of 4
GridIs(numbers, after, before) ==
    /\ Len(beats) = Cardinality(numbers)
    /\ \A k \in 1 .. Len(beats) :
          \E n \in numbers :
             /\ Cardinality({m \in numbers : m < n}) = k - 1
             /\ beats[k].time = (IF n >= 0 THEN after[n + 1] ELSE before[0 - n])
             /\ beats[k].isDownbeat = (n % 4 = 0)
    /\ \A k \in 1 .. Len(beats) - 1 : F64Less(beats[k].time, beats[k + 1].time)
Nanosecond == Dec(1, 1000000000)
Near(s, t) == F64Less(F64Abs(F64Sub(s, t)), Nanosecond)
C11_BeatAtZeroOmitted ==
    /\ pc = "done" /\ bpm = 150 /\ downbeatTime = Dec(6, 5)
    /\ Len(beats) >= 1
    /\ Near(beats[1].time, secondsPerBeat(bpm))
    /\ ~beats[1].isDownbeat
\* the grid holds a beat whose time by the product lies outside [0, duration)
C11_BeatPastDuration ==
    /\ pc = "done" /\ Len(beats) >= 1
    /\ LET last == Len(beats) - 1 - Cardinality({k \in 1 .. Len(beats) :
                                      F64Less(beats[k].time, downbeatTime)})
       IN  /\ F64Less(beats[Len(beats)].time, duration)
           /\ ~F64Less(ProductTime(last), duration)

\* ---------------------------------------------------------------------
\* C24  the beat grid terminates

\* the most iterations the two loops can make for the props: the first loop
\* advances by one beat from downbeatTime >= 0 towards duration, the second
\* goes back by one beat from downbeatTime towards 0; the quotients are
\* rounded, which the 2 allows for
GridStepBound ==
    F64ToInt(F64Floor(F64Div(duration, secondsPerBeat(bpm)))) + 2
        + F64ToInt(F64Floor(F64Div(downbeatTime, secondsPerBeat(bpm))))
\* C24: for a bpm of detectBPM, a duration >= 0 and a downbeatTime of
\* detectDownbeat, both loops of the beat grid end after finitely many
\* iterations (at most GridStepBound beats are made), and every beat time
\* that is generated lies in [0, duration).
C24_GridTerminates ==
    /\ <>(pc = "done")
    /\ [](Len(beats) <= GridStepBound)
    /\ [](\A k \in 1 .. Len(beats) :
             /\ F64GreaterEq(beats[k].time, F64Zero(FALSE))
             /\ F64Less(beats[k].time, duration))
\* both loops have run more than once and ended
C24_BothLoopsEnded ==
    /\ pc = "done" /\ Len(beats) >= 5
    /\ F64Less(beats[1].time, F64Sub(downbeatTime, secondsPerBeat(bpm)))
    /\ F64Greater(beats[Len(beats)].time,
                  F64Add(downbeatTime, secondsPerBeat(bpm)))
    /\ currentTime.neg

\* ---------------------------------------------------------------------
\* C12  a failing analysis step

\* the last analysis has ended, decoding succeeded, and exactly one of the
\* four analysis steps threw (or, for a step the handler never reached,
\* would have thrown)
SingleStepFailed ==
    /\ pc = "ready" /\ stepLog # <<>>
    /\ stepLog[1].outcomes.decode.ok
    /\ Cardinality({st \in {"bpm", "downbeat", "key", "waveform"} :
                       ~stepLog[1].outcomes[st].ok}) = 1
\* C12: in the upload handler a failure of a single analysis step after
\* decoding (tempo, downbeat, key or waveform) does not fail the analysis:
\* the failed step is replaced by its default (120 BPM, 0 s, C major / 8B,
\* no waveform), the other results are published, and no error is shown.
C12_StepFailureDegrades ==
    SingleStepFailed =>
        LET o == stepLog[1].outcomes
        IN  /\ error = "null"
            /\ audioData # <<>>
            /\ audioData[1].bpm = (IF o.bpm.ok THEN o.bpm.value ELSE 120)
            /\ audioData[1].downbeatTime =
                  (IF o.downbeat.ok THEN o.downbeat.value ELSE 0)
            /\ audioData[1].key = (IF o.key.ok THEN o.key.value ELSE CMajorResult)
            /\ (~o.waveform.ok) => audioData[1].waveform.segments = <<>>
\* the part that holds: FileInput publishes the defaults when detectDownbeat
\* throws (shown reachable)
C12_DownbeatDegrades ==
    /\ SingleStepFailed /\ component = "FileInput"
    /\ ~stepLog[1].outcomes.downbeat.ok
    /\ error = "null" /\ audioData # <<>> /\ audioData[1].downbeatTime = 0

\* ---------------------------------------------------------------------
\* C22  After any sequence of file selections the component never holds a
\* non-null error message and non-null analysis results at the same time.
C22_ErrorExcludesResults == ~(error # "null" /\ Len(audioData) > 0)
\* what holds: an upload that was accepted leaves either results or an error
C22_AcceptedUploadExclusive ==
    (error # "null" /\ Len(audioData) > 0) => error = InvalidTypeMessage
\* the results of an earlier upload stand beside the message for a file of
\* the wrong type
C22_StaleResultsWithError ==
    /\ pc = "ready" /\ ~isLoading
    /\ error = InvalidTypeMessage /\ Len(audioData) > 0

\* the state an accepted upload ends in: the spinner off and exactly one of
\* the error message and the results set
UploadSettled ==
    /\ pc = "ready" /\ ~isLoading
    /\ (error # "null") # (Len(audioData) > 0)
\* the step from the end of decodeAudio to the end of `finally`
FinishStepReports ==
    pc = "decoding" =>
        /\ pc' = "ready" /\ ~isLoading'
        /\ LET done == stepLog'[1]
           IN  IF done.failed = "none"
               THEN error' = "null" /\ Len(audioData') = 1
               ELSE /\ audioData' = <<>>
                    /\ error' # "null"
                    /\ (done.failed = "decode" =>
                           error' = IF done.outcomes.thrown = "Error"
                                    THEN StepMessage("decode")
                                    ELSE GenericMessage)
\* the selection of a file of the wrong type: the only step that ends with
\* the type message as the error
InvalidStepStartsNothing ==
    (pc = "ready" /\ error' = InvalidTypeMessage) =>
        /\ pc' = "ready" /\ ~isLoading'
        /\ UNCHANGED <<loadingStep, audioData, stepLog>>
\* C23: an upload that passes the type check sets isLoading while decoding is
\* awaited, and once decoding settles it always reaches the end of the
\* handler with isLoading false and either the error message set (for a
\* decode failure, the message of what decodeAudio threw) or the results set;
\* a file of the wrong type never sets isLoading and starts nothing.
C23_UploadLeavesLoading ==
    /\ [](isLoading <=> pc = "decoding")
    /\ (pc = "decoding") ~> UploadSettled
    /\ [][FinishStepReports]_vars
    /\ [][InvalidStepStartsNothing]_vars
\* an upload whose decoding failed with an Error has ended
C23_DecodeFailureReported ==
    /\ pc = "ready" /\ ~isLoading /\ Len(stepLog) = 1
    /\ stepLog[1].failed = "decode" /\ stepLog[1].outcomes.thrown = "Error"
    /\ error = StepMessage("decode") /\ audioData = <<>>
====
